---- MODULE Spec2Model ----
(***************************************************************************)
(* A model of pg_stage_rs, a streaming anonymizer for PostgreSQL dumps.    *)
(*                                                                         *)
(* Text is modelled as a sequence of atoms.  An atom is a TLA+ string that *)
(* stands for one byte (TAB, LF, CR, a letter, a digit) or for a run of    *)
(* bytes that holds no TAB, LF or CR (a whole SQL statement).  Vectors are *)
(* 1-based sequences, so an index of the source is the model's index - 1.  *)
(***************************************************************************)
EXTENDS Integers, Sequences, FiniteSets, TLC

VARIABLES
    \* DataProcessor (src/src/processor.rs)
    mutation_map,       \* table -> column -> Seq(MutationSpec)
    table_mutations,    \* table -> TableMutationSpec
    delete_patterns,    \* Vec<Regex>: each pattern is text searched for in the table name
    secrets,            \* SECRET_KEY / SECRET_KEY_NONCE taken from the environment
    overflow_checks,    \* the build: arithmetic overflow panics (debug) or wraps (release)
    current_table,
    current_columns,
    column_indices,
    current_mutations,
    is_delete_table,
    sorted_columns,
    unique_tracker,     \* UniqueTracker.values
    relation_tracker,   \* RelationTracker: [fk_map, values]
    \* the run of a driver
    input,              \* the bytes given to the driver (initial_bytes ++ reader)
    pos,                \* how much of the input has been consumed
    output,             \* the bytes written so far
    is_data,            \* PlainHandler::process: inside a COPY payload
    comment_buf,        \* PlainHandler::process: Option<String>, the open accumulator
    status,             \* where the driver is: "run", ..., "done", "failed" or "panicked"
    header,             \* CustomHandler::process: Option<Header>, set by parse_header
    entries,            \* CustomHandler::process: Vec<TocEntry>, set by parse_toc
    \* observations of the calls made, kept for the properties
    log

procVars == <<mutation_map, table_mutations, delete_patterns, secrets, overflow_checks,
              current_table,
              current_columns, column_indices, current_mutations, is_delete_table,
              sorted_columns, unique_tracker, relation_tracker>>
runVars == <<input, pos, output, is_data, comment_buf, status, header, entries>>
vars == <<procVars, runVars, log>>

-----------------------------------------------------------------------------
(* Bounds of the model *)

\* rows mutated in one behaviour of SpecRows
MaxRows == 3
\* COPY payloads in one behaviour of SpecRows
MaxPayloads == 2
\* values a random generator can draw
RandRange == 2
\* draws of the random generator available to one row
MaxDraws == 2
\* the longest list of conditions given to check_conditions on its own
MaxConds == 2
\* lines in one input of the plain driver
MaxLines == 3
\* bytes that may be missing at the end of a custom-format input
MaxCut == 2
\* blocks in one dump of SpecBlock
MaxBlocks == 2
\* bytes in the wide field of a row of SpecBlock
WideLen == 126
\* the short fills of the read buffer of a decoder
MaxFill == 2

-----------------------------------------------------------------------------
(* Text *)

TAB == "\t"
LF == "\n"
CR == "\r"
\* a byte that makes the text invalid UTF-8
BAD == "\\xFF"

Range(s) == {s[i] : i \in 1..Len(s)}

NoneValue == [some |-> FALSE, v |-> <<>>]
Some(x) == [some |-> TRUE, v |-> x]

\* `let name = value;`: Body is given the value, which is computed once
Bind(value, Body(_)) == Body(value)

EmptyMap == [x \in {} |-> 0]

\* std::str::from_utf8
IsUtf8(bytes) == BAD \notin Range(bytes)

\* the index of the first atom of s at or after `from` that equals b, 0 if none (memchr)
Find(s, b, from) ==
    LET hits == {i \in from..Len(s) : s[i] = b} IN
    IF hits = {} THEN 0 ELSE CHOOSE i \in hits : \A j \in hits : i <= j

\* str::split(delimiter): always at least one piece
RECURSIVE Split(_, _)
Split(s, d) ==
    LET p == Find(s, d, 1) IN
    IF p = 0 THEN <<s>>
    ELSE <<SubSeq(s, 1, p - 1)>> \o Split(SubSeq(s, p + 1, Len(s)), d)

\* the output loop of process_line: values joined by the delimiter byte
RECURSIVE JoinValues(_, _)
JoinValues(values, d) ==
    IF Len(values) = 0 THEN <<>>
    ELSE IF Len(values) = 1 THEN values[1]
    ELSE values[1] \o <<d>> \o JoinValues(Tail(values), d)

\* the number of atoms of s equal to b
Count(s, b) == Cardinality({i \in 1..Len(s) : s[i] = b})

\* p occurs in s as a contiguous run
Contains(s, p) ==
    \E i \in 0..(Len(s) - Len(p)) : SubSeq(s, i + 1, i + Len(p)) = p

StartsWith(s, p) == Len(s) >= Len(p) /\ SubSeq(s, 1, Len(p)) = p
EndsWith(s, p) == Len(s) >= Len(p) /\ SubSeq(s, Len(s) - Len(p) + 1, Len(s)) = p

\* a table or column name is one atom: the name a text spells, "" if it spells none
NameOf(text) == IF Len(text) = 1 THEN text[1] ELSE ""

\* the delimiter the processor is built with (main.rs: default "\t")
delimiter == TAB

-----------------------------------------------------------------------------
(* JSON values of mutation_kwargs (serde_json::Value) *)

JStr(s) == [t |-> "str", v |-> s]
JBool(b) == [t |-> "bool", v |-> b]
JNum(n) == [t |-> "num", v |-> n]
JArr(a) == [t |-> "arr", v |-> a]
JNull == [t |-> "null", v |-> <<>>]

\* the text `\N`, PostgreSQL's NULL
NullText == <<"\\", "N">>

\* MutationContext::get_bool_kwarg
get_bool_kwarg(kwargs, key) ==
    key \in DOMAIN kwargs /\ kwargs[key].t = "bool" /\ kwargs[key].v

\* MutationContext::get_str_kwarg
get_str_kwarg(kwargs, key) ==
    IF key \in DOMAIN kwargs /\ kwargs[key].t = "str" THEN Some(kwargs[key].v)
    ELSE NoneValue

\* the match on serde_json::Value shared by fixed_value and random_choice
JsonToText(j) ==
    IF j.t = "str" THEN j.v
    ELSE IF j.t = "null" THEN NullText
    ELSE IF j.t = "bool" THEN (IF j.v THEN <<"true">> ELSE <<"false">>)
    ELSE IF j.t = "num" THEN <<ToString(j.v)>>
    ELSE <<"[...]">>

-----------------------------------------------------------------------------
(* conditions.rs *)

\* Regex::new on a pattern of literal atoms: an unbalanced "(" does not compile
RegexNew(pattern) == "(" \notin Range(pattern)

\* Regex::is_match of a literal pattern: an unanchored search
RegexIsMatch(pattern, text) == Contains(text, pattern)

\* the body of the loop of check_conditions for one condition: `matched`
ConditionMatched(condition, values, indices) ==
    IF condition.column_name \notin DOMAIN indices THEN FALSE
    ELSE IF indices[condition.column_name] > Len(values) THEN FALSE
    ELSE
        LET col_value == values[indices[condition.column_name]] IN
        CASE condition.operation = "equal" -> col_value = condition.value
          [] condition.operation = "not_equal" -> col_value # condition.value
          [] condition.operation = "by_pattern" ->
                IF RegexNew(condition.value) THEN RegexIsMatch(condition.value, col_value)
                ELSE FALSE
          [] OTHER -> FALSE

\* a loop that asks every condition to match
RECURSIVE ConditionsAll(_, _, _, _)
ConditionsAll(conditions, i, values, indices) ==
    IF i > Len(conditions) THEN TRUE
    ELSE IF ~ConditionMatched(conditions[i], values, indices) THEN FALSE
    ELSE ConditionsAll(conditions, i + 1, values, indices)

\* `for condition in conditions`, with its `return true` and the final `false`
RECURSIVE ConditionsLoop(_, _, _, _)
ConditionsLoop(conditions, i, values, indices) ==
    IF i > Len(conditions) THEN FALSE
    ELSE IF ConditionMatched(conditions[i], values, indices) THEN TRUE
    ELSE ConditionsLoop(conditions, i + 1, values, indices)

check_conditions(conditions, values, indices) ==
    IF Len(conditions) = 0 THEN TRUE
    ELSE ConditionsLoop(conditions, 1, values, indices)

-----------------------------------------------------------------------------
(* relations.rs: fk_map is keyed by <<table, to_column, fk_value>>; a key of *)
(* `values` is a fresh v4 UUID, modelled as the number of the store          *)

EmptyRelations == [fk_map |-> EmptyMap, values |-> <<>>]

RelationLookup(rt, table_name, to_column_name, fk_value) ==
    LET k == <<table_name, to_column_name, fk_value>> IN
    IF k \in DOMAIN rt.fk_map /\ rt.fk_map[k] \in DOMAIN rt.values
    THEN Some(rt.values[rt.fk_map[k]])
    ELSE NoneValue

RelationStore(rt, table_name, to_column_name, fk_value, obfuscated_value) ==
    LET key == Len(rt.values) + 1
        k == <<table_name, to_column_name, fk_value>>
    IN [fk_map |-> (k :> key) @@ rt.fk_map,
        values |-> Append(rt.values, obfuscated_value)]

-----------------------------------------------------------------------------
(* unique.rs *)

\* UniqueTracker::try_insert: whether the value was new, and the set after
try_insert(values, value) ==
    [inserted |-> value \notin values, values |-> values \cup {value}]

\* UniqueTracker::generate_unique for a generator whose draws repeat `value`
\* during the call: the first attempt inserts it or every attempt finds it
\* present, and the set is left as it was
generate_unique(values, value) ==
    IF try_insert(values, value).inserted
    THEN [ok |-> TRUE, val |-> value, ut |-> try_insert(values, value).values]
    ELSE [ok |-> FALSE, val |-> <<>>, ut |-> values]


-----------------------------------------------------------------------------
(* mutator/*.rs.  A generator call is given `draw`, the number the random    *)
(* generator yields during the call.  Every generator returns                *)
(* [ok, val, ut]: Ok(val) or Err, and the unique tracker after the call.     *)

\* the locale the processor is built with (main.rs: default "en")
locale == "en"

Ok(val, ut) == [ok |-> TRUE, val |-> val, ut |-> ut]
Err(ut) == [ok |-> FALSE, val |-> <<>>, ut |-> ut]

\* the tail shared by the random generators: `if unique { generate_unique } else { Ok(gen()) }`
UniqueOrPlain(kwargs, value, ut) ==
    IF get_bool_kwarg(kwargs, "unique") THEN generate_unique(ut, value)
    ELSE Ok(value, ut)

\* generators that draw a value and honour "unique" (names, contact, numeric,
\* datetime, network): the value drawn is the generator's name and the draw
RandomGenerators ==
    {"first_name", "last_name", "full_name", "email", "address",
     "numeric_smallint", "numeric_integer", "numeric_bigint", "numeric_decimal",
     "numeric_real", "numeric_double_precision", "numeric_smallserial",
     "numeric_serial", "numeric_bigserial", "date", "uri", "ipv4", "ipv6"}

RandomValue(name, draw) == <<name, ToString(draw)>>

random_generator(name, kwargs, draw, ut) ==
    UniqueOrPlain(kwargs, RandomValue(name, draw), ut)

\* names::middle_name
middle_name(kwargs, draw, ut) ==
    IF locale # "ru" THEN Err(ut)
    ELSE UniqueOrPlain(kwargs, RandomValue("middle_name", draw), ut)

DigitAtoms == {"0", "1", "2", "3", "4", "5", "6", "7", "8", "9"}
Letters == <<"A", "B", "C", "D", "E", "F", "G", "H", "I", "J">>
DrawDigit(draw) == ToString(draw % 10)
DrawLetter(draw) == Letters[(draw % 10) + 1]

\* str::as_bytes with every byte taken as a char (`b as char`): a char of one
\* byte is itself, the two bytes C3 A9 of "é" are the chars "Ã" and "©"
RECURSIVE BytesAsChars(_)
BytesAsChars(text) ==
    IF text = <<>> THEN <<>>
    ELSE (IF Head(text) = "é" THEN <<"Ã", "©">> ELSE <<Head(text)>>) \o BytesAsChars(Tail(text))

\* contact::phone_number
phone_number(kwargs, draw, ut) ==
    LET mask == get_str_kwarg(kwargs, "mask")
        mask_bytes == BytesAsChars(mask.v)
    IN
    IF ~mask.some THEN Err(ut)
    ELSE UniqueOrPlain(kwargs,
            [i \in 1..Len(mask_bytes) |->
                IF mask_bytes[i] = "X" \/ mask_bytes[i] = "#" THEN DrawDigit(draw)
                ELSE mask_bytes[i]],
            ut)

\* mask::string_by_mask
string_by_mask(kwargs, draw, ut) ==
    LET mask == get_str_kwarg(kwargs, "mask")
        chr == get_str_kwarg(kwargs, "char")
        dig == get_str_kwarg(kwargs, "digit")
        char_placeholder == IF chr.some /\ Len(chr.v) > 0 THEN chr.v[1] ELSE "@"
        digit_placeholder == IF dig.some /\ Len(dig.v) > 0 THEN dig.v[1] ELSE "#"
    IN
    IF ~mask.some THEN Err(ut)
    ELSE UniqueOrPlain(kwargs,
            [i \in 1..Len(mask.v) |->
                IF mask.v[i] = char_placeholder THEN DrawLetter(draw)
                ELSE IF mask.v[i] = digit_placeholder THEN DrawDigit(draw)
                ELSE mask.v[i]],
            ut)

\* contact::deterministic_phone: the last `count` digits are permuted by a
\* shuffle seeded from the secrets alone; the permutation of zero or one digit
\* is the identity, and of more digits it is modelled as their reversal
deterministic_phone(kwargs, current_value, ut) ==
    LET has_count == "obfuscated_numbers_count" \in DOMAIN kwargs
                        /\ kwargs["obfuscated_numbers_count"].t = "num"
                        /\ kwargs["obfuscated_numbers_count"].v >= 0
        count == kwargs["obfuscated_numbers_count"].v
        digit_positions == {i \in 1..Len(current_value) : current_value[i] \in DigitAtoms}
        \* the positions of the last `count` digits, in increasing order
        shuffled == {i \in digit_positions :
                        Cardinality({j \in digit_positions : j > i}) < count}
        rank(i) == Cardinality({j \in shuffled : j < i}) + 1
        nth(n) == CHOOSE i \in shuffled : rank(i) = n
    IN
    IF ~has_count THEN Err(ut)
    ELSE IF "SECRET_KEY" \notin secrets THEN Err(ut)
    ELSE IF "SECRET_KEY_NONCE" \notin secrets THEN Err(ut)
    ELSE IF Cardinality(digit_positions) < count THEN Err(ut)
    ELSE Ok([i \in 1..Len(current_value) |->
                IF i \in shuffled
                THEN current_value[nth(Cardinality(shuffled) + 1 - rank(i))]
                ELSE current_value[i]],
            ut)

\* Uuid::parse_str for the namespaces the model uses
ValidUuids == {<<"6ba7b810-9dad-11d1-80b4-00c04fd430c8">>}

\* Uuid::new_v5(namespace, source_value ++ today): one value per name
Uuid5(namespace, source_value) == <<"uuid5:">> \o source_value \o <<"@today">>

\* identity::uuid5_by_source_value
uuid5_by_source_value(kwargs, obfuscated_values, ut) ==
    LET namespace_str == get_str_kwarg(kwargs, "namespace")
        source_column == get_str_kwarg(kwargs, "source_column")
        source_value ==
            IF NameOf(source_column.v) \in DOMAIN obfuscated_values
            THEN obfuscated_values[NameOf(source_column.v)]
            ELSE <<>>
    IN
    IF ~namespace_str.some THEN Err(ut)
    ELSE IF ~source_column.some THEN Err(ut)
    ELSE IF namespace_str.v \notin ValidUuids THEN Err(ut)
    ELSE Ok(Uuid5(namespace_str.v, source_value), ut)

\* simple::fixed_value
fixed_value(kwargs, ut) ==
    IF "value" \notin DOMAIN kwargs THEN Err(ut)
    ELSE Ok(JsonToText(kwargs["value"]), ut)

\* simple::random_choice
random_choice(kwargs, draw, ut) ==
    IF ~("choices" \in DOMAIN kwargs /\ kwargs["choices"].t = "arr") THEN Err(ut)
    ELSE IF Len(kwargs["choices"].v) = 0 THEN Err(ut)
    ELSE Ok(JsonToText(kwargs["choices"].v[(draw % Len(kwargs["choices"].v)) + 1]), ut)

\* mutator::dispatch_mutation
dispatch_mutation(name, kwargs, current_value, draw, ut, obfuscated_values) ==
    CASE name \in RandomGenerators -> random_generator(name, kwargs, draw, ut)
      [] name = "middle_name" -> middle_name(kwargs, draw, ut)
      [] name = "phone_number" -> phone_number(kwargs, draw, ut)
      [] name = "deterministic_phone_number" -> deterministic_phone(kwargs, current_value, ut)
      [] name = "uuid4" -> Ok(RandomValue("uuid4", draw), ut)
      [] name = "uuid5_by_source_value" -> uuid5_by_source_value(kwargs, obfuscated_values, ut)
      [] name = "null" -> Ok(NullText, ut)
      [] name = "empty_string" -> Ok(<<>>, ut)
      [] name = "fixed_value" -> fixed_value(kwargs, ut)
      [] name = "random_choice" -> random_choice(kwargs, draw, ut)
      [] name = "string_by_mask" -> string_by_mask(kwargs, draw, ut)
      [] OTHER -> Err(ut)


-----------------------------------------------------------------------------
(* processor.rs: DataProcessor *)

\* the COPY statements of the model's dumps and what copy_re captures in each:
\* the table name, and the column list split on ", "
CopyStatements ==
    { [text |-> "COPY t1 (a, b) FROM stdin;", table |-> "t1", columns |-> <<"a", "b">>],
      [text |-> "COPY t2 (b, a) FROM stdin;", table |-> "t2", columns |-> <<"b", "a">>],
      [text |-> "COPY logs (a) FROM stdin;", table |-> "logs", columns |-> <<"a">>] }

CopyTexts == {c.text : c \in CopyStatements}

\* copy_re.captures: the regex is not anchored, the leftmost statement of the line matches
CopyCaptures(line) ==
    LET hits == {i \in 1..Len(line) : line[i] \in CopyTexts} IN
    IF hits = {} THEN NoneValue
    ELSE LET first == CHOOSE i \in hits : \A j \in hits : i <= j
         IN Some(CHOOSE c \in CopyStatements : c.text = line[first])

\* the COMMENT statements of the model's dumps: a column directive on one line,
\* the same directive broken after its `[`, and a table directive
CommentColumn == "COMMENT ON COLUMN t1.b IS 'anon: [{\"mutation_name\": \"fixed_value\", \"mutation_kwargs\": {\"value\": \"R\"}}]';"
CommentOpen == "COMMENT ON COLUMN t1.b IS 'anon: ["
CommentClose == "{\"mutation_name\": \"fixed_value\", \"mutation_kwargs\": {\"value\": \"R\"}}]';"
CommentTable == "COMMENT ON TABLE logs IS 'anon: {\"mutation_name\": \"delete\"}';"
\* a second directive on the same column, and directives whose payload is no JSON
CommentNull == "COMMENT ON COLUMN t1.b IS 'anon: [{\"mutation_name\": \"null\"}]';"
CommentColumnBad == "COMMENT ON COLUMN t1.b IS 'anon: [{\"mutation_name\": ]';"
CommentTableBad == "COMMENT ON TABLE logs IS 'anon: {\"mutation_name\": ';"

\* what serde_json makes of the payload of the column directive
CommentSpecs ==
    <<[mutation_name |-> "fixed_value", mutation_kwargs |-> "value" :> JStr(<<"R">>),
       conditions |-> <<>>, relations |-> <<>>]>>

\* what serde_json makes of the payload of the second column directive
CommentNullSpecs ==
    <<[mutation_name |-> "null", mutation_kwargs |-> EmptyMap,
       conditions |-> <<>>, relations |-> <<>>]>>

\* str::ends_with("';")
EndsWithQuoteSemi(line) ==
    Len(line) > 0 /\ line[Len(line)] \in {CommentColumn, CommentClose, CommentTable,
                                           CommentNull, CommentColumnBad, CommentTableBad}

\* comment_column_re.captures: the name split at its last dot, and the payload
\* parsed; the payload of a broken directive parses when nothing but the line
\* break lies between its two halves
ColumnCaptures(line) ==
    IF line = <<CommentColumn>> \/ line = <<CommentOpen, LF, CommentClose>>
    THEN Some([table |-> "t1", column |-> "b", specs |-> Some(CommentSpecs)])
    ELSE IF line = <<CommentNull>>
    THEN Some([table |-> "t1", column |-> "b", specs |-> Some(CommentNullSpecs)])
    ELSE IF line = <<CommentColumnBad>>
    THEN Some([table |-> "t1", column |-> "b", specs |-> NoneValue])
    ELSE IF Len(line) > 1 /\ line[1] = CommentOpen /\ EndsWithQuoteSemi(line)
    THEN Some([table |-> "t1", column |-> "b", specs |-> NoneValue])
    ELSE NoneValue

\* comment_table_re.captures
TableCaptures(line) ==
    IF line = <<CommentTable>>
    THEN Some([table |-> "logs", spec |-> Some([mutation_name |-> "delete"])])
    ELSE IF line = <<CommentTableBad>>
    THEN Some([table |-> "logs", spec |-> NoneValue])
    ELSE NoneValue

\* a parse_comment that forgets the directives of the table when the payload
\* of a column directive does not parse
ParseCommentForgets(line, mm, tm) ==
    LET col == ColumnCaptures(line)
        tab == TableCaptures(line)
        old == IF col.v.table \in DOMAIN mm THEN mm[col.v.table] ELSE EmptyMap
    IN
    IF col.some
    THEN [matched |-> TRUE,
          mm |-> IF col.v.specs.some
                 THEN (col.v.table :> ((col.v.column :> col.v.specs.v) @@ old)) @@ mm
                 ELSE [t \in DOMAIN mm \ {col.v.table} |-> mm[t]],
          tm |-> tm]
    ELSE IF tab.some
    THEN [matched |-> TRUE,
          mm |-> mm,
          tm |-> IF tab.v.spec.some THEN (tab.v.table :> tab.v.spec.v) @@ tm ELSE tm]
    ELSE [matched |-> FALSE, mm |-> mm, tm |-> tm]

\* DataProcessor::parse_comment on the maps mm and tm: [matched, mm, tm], the
\* value returned and the two maps after the call
ParseCommentIn(line, mm, tm) ==
    LET col == ColumnCaptures(line)
        tab == TableCaptures(line)
        old == IF col.v.table \in DOMAIN mm THEN mm[col.v.table] ELSE EmptyMap
    IN
    IF col.some
    THEN [matched |-> TRUE,
          mm |-> IF col.v.specs.some
                 THEN (col.v.table :> ((col.v.column :> col.v.specs.v) @@ old)) @@ mm
                 ELSE mm,
          tm |-> tm]
    ELSE IF tab.some
    THEN [matched |-> TRUE,
          mm |-> mm,
          tm |-> IF tab.v.spec.some THEN (tab.v.table :> tab.v.spec.v) @@ tm ELSE tm]
    ELSE [matched |-> FALSE, mm |-> mm, tm |-> tm]

\* DataProcessor::parse_comment on the maps of the processor
parse_comment(line) == ParseCommentIn(line, mutation_map, table_mutations)

\* DataProcessor::should_delete_table
should_delete_table(table_name) ==
    \/ /\ table_name \in DOMAIN table_mutations
       /\ table_mutations[table_name].mutation_name = "delete"
    \/ \E i \in 1..Len(delete_patterns) :
            RegexNew(delete_patterns[i]) /\ RegexIsMatch(delete_patterns[i], <<table_name>>)

\* the closure of sort_columns_by_dependency: some spec of the column has a source_column kwarg
HasSource(mutations, col_name) ==
    /\ col_name \in DOMAIN mutations
    /\ \E i \in 1..Len(mutations[col_name]) :
            "source_column" \in DOMAIN mutations[col_name][i].mutation_kwargs

\* the columns left in the order of the COPY header
HeaderOrder(columns, mutations) == columns

\* the columns with a source_column first
DependentFirst(columns, mutations) ==
    SelectSeq(columns, LAMBDA c : HasSource(mutations, c))
        \o SelectSeq(columns, LAMBDA c : ~HasSource(mutations, c))

\* DataProcessor::sort_columns_by_dependency
sort_columns_by_dependency(columns, mutations) ==
    SelectSeq(columns, LAMBDA c : ~HasSource(mutations, c))
        \o SelectSeq(columns, LAMBDA c : HasSource(mutations, c))

\* column_indices after the loop of setup_table: the last position of each name
ColumnIndices(columns) ==
    [c \in Range(columns) |-> CHOOSE i \in 1..Len(columns) :
            columns[i] = c /\ \A j \in 1..Len(columns) : columns[j] = c => j <= i]

\* a setup_table that leaves the unique tracker as the table before left it
SetupTableKeepsUnique(caps) ==
    /\ current_columns' = caps.columns
    /\ column_indices' = ColumnIndices(caps.columns)
    /\ is_delete_table' = should_delete_table(caps.table)
    /\ current_mutations' = IF caps.table \in DOMAIN mutation_map THEN mutation_map[caps.table]
                            ELSE EmptyMap
    /\ sorted_columns' = sort_columns_by_dependency(caps.columns, current_mutations')
    /\ current_table' = caps.table
    /\ UNCHANGED <<mutation_map, table_mutations, delete_patterns, secrets, overflow_checks,
                   relation_tracker, unique_tracker>>

\* DataProcessor::setup_table, when the line is a COPY statement
SetupTableFields(caps) ==
    LET mutations == IF caps.table \in DOMAIN mutation_map THEN mutation_map[caps.table]
                     ELSE EmptyMap
    IN
    /\ current_columns' = caps.columns
    /\ column_indices' = ColumnIndices(caps.columns)
    /\ is_delete_table' = should_delete_table(caps.table)
    /\ current_mutations' = mutations
    /\ sorted_columns' = sort_columns_by_dependency(caps.columns, mutations)
    /\ current_table' = caps.table
    /\ unique_tracker' = {}
    /\ UNCHANGED <<mutation_map, table_mutations, delete_patterns, secrets, overflow_checks, relation_tracker>>

\* a reset_table that leaves the directives and the delete mark of the table
ResetTableKeeps ==
    /\ current_table' = ""
    /\ current_columns' = <<>>
    /\ UNCHANGED <<mutation_map, table_mutations, delete_patterns, secrets, overflow_checks,
                   column_indices, current_mutations, is_delete_table, sorted_columns,
                   unique_tracker, relation_tracker>>

\* DataProcessor::reset_table
ResetTableFields ==
    /\ current_table' = ""
    /\ current_columns' = <<>>
    /\ current_mutations' = EmptyMap
    /\ is_delete_table' = FALSE
    /\ UNCHANGED <<mutation_map, table_mutations, delete_patterns, secrets, overflow_checks, column_indices,
                   sorted_columns, unique_tracker, relation_tracker>>

\* the first loop over spec.relations: the first relation whose from column is
\* in the header and whose lookup finds a value
RECURSIVE RelationsLookupLoop(_, _, _, _)
RelationsLookupLoop(relations, j, result_values, rt) ==
    IF j > Len(relations) THEN NoneValue
    ELSE
        LET relation == relations[j]
            fk_value == result_values[column_indices[relation.from_column_name]]
            existing == RelationLookup(rt, relation.table_name, relation.to_column_name, fk_value)
        IN
        IF relation.from_column_name \in DOMAIN column_indices /\ existing.some
        THEN existing
        ELSE RelationsLookupLoop(relations, j + 1, result_values, rt)

\* the second loop over spec.relations, after the generator returned new_val
RECURSIVE RelationsStoreLoop(_, _, _, _, _)
RelationsStoreLoop(relations, j, result_values, rt, new_val) ==
    IF j > Len(relations) THEN rt
    ELSE
        LET relation == relations[j]
            fk_value == result_values[column_indices[relation.from_column_name]]
        IN
        IF relation.from_column_name \in DOMAIN column_indices
        THEN RelationsStoreLoop(relations, j + 1, result_values,
                RelationStore(rt, relation.table_name, relation.to_column_name, fk_value, new_val),
                new_val)
        ELSE RelationsStoreLoop(relations, j + 1, result_values, rt, new_val)

\* the draw the k-th generator call of a row gets
DrawOf(tape, k) == tape[((k - 1) % Len(tape)) + 1]

\* what the loop over the specs of a column does with spec i: st is
\* [rv, obf, ut, rt, k, ev]: result_values, obfuscated_values, the two
\* trackers, the generator calls made so far, and the specs visited, each with
\* what became of it.  The result is st after the spec, and whether the loop
\* breaks.
SpecStep(st, col_name, col_idx, spec, i, current_value, tape) ==
    LET existing == RelationsLookupLoop(spec.relations, 1, st.rv, st.rt)
        r == dispatch_mutation(spec.mutation_name, spec.mutation_kwargs, current_value,
                               DrawOf(tape, st.k + 1), st.ut, st.obf)
        event(what, val) == [col |-> col_name, spec |-> i, what |-> what, val |-> val,
                             obf |-> st.obf, rv |-> st.rv]
    IN
    IF ~check_conditions(spec.conditions, st.rv, column_indices)
    THEN [brk |-> FALSE, st |-> [st EXCEPT !.ev = Append(@, event("skipped", <<>>))]]
    ELSE IF Len(spec.relations) > 0 /\ existing.some
    THEN [brk |-> TRUE,
          st |-> [st EXCEPT !.rv[col_idx] = existing.v,
                            !.obf = (col_name :> existing.v) @@ @,
                            !.ev = Append(@, event("relation", existing.v))]]
    ELSE IF r.ok
    THEN [brk |-> TRUE,
          st |-> [st EXCEPT !.rv[col_idx] = r.val,
                            !.obf = (col_name :> r.val) @@ @,
                            !.ut = r.ut,
                            !.rt = RelationsStoreLoop(spec.relations, 1, st.rv, st.rt, r.val),
                            !.k = @ + 1,
                            !.ev = Append(@, event("generated", r.val))]]
    ELSE [brk |-> FALSE,
          st |-> [st EXCEPT !.ut = r.ut, !.k = @ + 1,
                            !.ev = Append(@, event("failed", <<>>))]]

\* a loop that gives up the column with the first spec it visits
SpecsLoopFirstOnly(st, col_name, col_idx, specs, i, current_value, tape) ==
    IF i > Len(specs) THEN st
    ELSE SpecStep(st, col_name, col_idx, specs[i], i, current_value, tape).st

\* a loop that goes on to the later specs after one has applied
RECURSIVE SpecsLoopNoBreak(_, _, _, _, _, _, _)
SpecsLoopNoBreak(st, col_name, col_idx, specs, i, current_value, tape) ==
    IF i > Len(specs) THEN st
    ELSE SpecsLoopNoBreak(SpecStep(st, col_name, col_idx, specs[i], i, current_value, tape).st,
                          col_name, col_idx, specs, i + 1, current_value, tape)

\* `for spec in specs.iter()`, with its `continue` and `break`
RECURSIVE SpecsLoop(_, _, _, _, _, _, _)
SpecsLoop(st, col_name, col_idx, specs, i, current_value, tape) ==
    IF i > Len(specs) THEN st
    ELSE
        LET step == SpecStep(st, col_name, col_idx, specs[i], i, current_value, tape) IN
        IF step.brk THEN step.st
        ELSE SpecsLoop(step.st, col_name, col_idx, specs, i + 1, current_value, tape)

\* `for col_sort_idx in 0..self.sorted_columns.len()`
RECURSIVE ColumnsLoop(_, _, _)
ColumnsLoop(st, c, tape) ==
    IF c > Len(sorted_columns) THEN st
    ELSE
        LET col_name == sorted_columns[c] IN
        IF col_name \notin DOMAIN column_indices THEN ColumnsLoop(st, c + 1, tape)
        ELSE IF col_name \notin DOMAIN current_mutations THEN ColumnsLoop(st, c + 1, tape)
        ELSE ColumnsLoop(
                SpecsLoop(st, col_name, column_indices[col_name], current_mutations[col_name],
                          1, st.rv[column_indices[col_name]], tape),
                c + 1, tape)

\* a process_line that does not look at is_delete_table
ProcessLineKeeps(line, tape, ut, rt) ==
    LET values == Split(line, delimiter)
        same == [out |-> Some(line), ut |-> ut, rt |-> rt, ev |-> <<>>, rv |-> values]
        st == ColumnsLoop([rv |-> values, obf |-> EmptyMap, ut |-> ut, rt |-> rt,
                           k |-> 0, ev |-> <<>>], 1, tape)
    IN
    IF DOMAIN current_mutations = {} THEN same
    ELSE IF ~IsUtf8(line) THEN same
    ELSE IF Len(values) # Len(current_columns) THEN same
    ELSE [out |-> Some(JoinValues(st.rv, delimiter)), ut |-> st.ut, rt |-> st.rt,
          ev |-> st.ev, rv |-> st.rv]

\* DataProcessor::process_line with the trackers as they stand at the call:
\* [out, ut, rt, ev, rv], the Option returned, the trackers after the call, the
\* specs visited and result_values
ProcessLine(line, tape, ut, rt) ==
    LET values == Split(line, delimiter)
        same == [out |-> Some(line), ut |-> ut, rt |-> rt, ev |-> <<>>, rv |-> values]
        st == ColumnsLoop([rv |-> values, obf |-> EmptyMap, ut |-> ut, rt |-> rt,
                           k |-> 0, ev |-> <<>>], 1, tape)
    IN
    IF is_delete_table THEN [same EXCEPT !.out = NoneValue]
    ELSE IF DOMAIN current_mutations = {} THEN same
    ELSE IF ~IsUtf8(line) THEN same
    ELSE IF Len(values) # Len(current_columns) THEN same
    ELSE [out |-> Some(JoinValues(st.rv, delimiter)), ut |-> st.ut, rt |-> st.rt,
          ev |-> st.ev, rv |-> st.rv]

\* DataProcessor::process_line on the trackers of the processor
process_line(line, tape) == ProcessLine(line, tape, unique_tracker, relation_tracker)

\* DataProcessor::has_mutations
has_mutations == DOMAIN current_mutations # {}

\* DataProcessor::is_delete
is_delete == is_delete_table


-----------------------------------------------------------------------------
(* Directive sets: what parse_comment leaves in mutation_map for the column  *)
(* comments of a dump.  Each set gives tables t1 (a, b) and t2 (b, a) the    *)
(* same directives.                                                          *)

MSpec(name, kwargs, conditions, relations) ==
    [mutation_name |-> name, mutation_kwargs |-> kwargs,
     conditions |-> conditions, relations |-> relations]

Cond(column_name, operation, value) ==
    [column_name |-> column_name, operation |-> operation, value |-> value]

\* the relation "b follows a", kept in the tracker under (t1, b)
RelAB == [table_name |-> "t1", column_name |-> "b", from_column_name |-> "a",
          to_column_name |-> "b"]

Namespace == JStr(<<"6ba7b810-9dad-11d1-80b4-00c04fd430c8">>)

Unique == "unique" :> JBool(TRUE)

DirectiveSets ==
    { \* a fixed value
      "b" :> <<MSpec("fixed_value", "value" :> JStr(<<"R">>), <<>>, <<>>)>>,
      \* a fixed value that holds the delimiter
      "b" :> <<MSpec("fixed_value", "value" :> JStr(<<"x", TAB, "y">>), <<>>, <<>>)>>,
      \* a unique e-mail tied to column a by a relation
      "b" :> <<MSpec("email", Unique, <<>>, <<RelAB>>)>>,
      \* the same, and column a is itself replaced
      ("b" :> <<MSpec("email", EmptyMap, <<>>, <<RelAB>>)>>)
          @@ ("a" :> <<MSpec("uuid4", EmptyMap, <<>>, <<>>)>>),
      \* a generator that fails on a value without a digit, under the relation
      "b" :> <<MSpec("deterministic_phone_number", "obfuscated_numbers_count" :> JNum(1),
                     <<>>, <<RelAB>>)>>,
      \* a spec that always fails, NULL for the rows where a = 1, an e-mail for
      \* the others
      "b" :> <<MSpec("middle_name", EmptyMap, <<>>, <<>>),
               MSpec("null", EmptyMap, <<Cond("a", "equal", <<"1">>)>>, <<>>),
               MSpec("email", EmptyMap, <<>>, <<>>)>>,
      \* two specs that always fail, then a unique e-mail
      "b" :> <<MSpec("middle_name", EmptyMap, <<>>, <<>>),
               MSpec("fixed_value", EmptyMap, <<>>, <<>>),
               MSpec("email", Unique, <<>>, <<>>)>>,
      \* a name dispatch_mutation does not know, then choices that are no array
      "b" :> <<MSpec("no_such_mutation", EmptyMap, <<>>, <<>>),
               MSpec("random_choice", "choices" :> JNum(0), <<>>, <<>>)>>,
      \* b is derived from the replaced a
      ("b" :> <<MSpec("uuid5_by_source_value",
                      ("namespace" :> Namespace) @@ ("source_column" :> JStr(<<"a">>)),
                      <<>>, <<>>)>>)
          @@ ("a" :> <<MSpec("email", EmptyMap, <<>>, <<>>)>>),
      \* b is derived from a, and a from b
      ("b" :> <<MSpec("uuid5_by_source_value",
                      ("namespace" :> Namespace) @@ ("source_column" :> JStr(<<"a">>)),
                      <<>>, <<>>)>>)
          @@ ("a" :> <<MSpec("uuid5_by_source_value",
                      ("namespace" :> Namespace) @@ ("source_column" :> JStr(<<"b">>)),
                      <<>>, <<>>)>>),
      \* a condition on a column replaced earlier in the row, and one on a pattern
      ("b" :> <<MSpec("null", EmptyMap, <<Cond("a", "equal", <<"1">>)>>, <<>>),
                MSpec("empty_string", EmptyMap, <<Cond("a", "by_pattern", <<"2">>),
                                                  Cond("c", "equal", <<"1">>)>>, <<>>)>>)
          @@ ("a" :> <<MSpec("fixed_value", "value" :> JStr(<<"1">>),
                             <<Cond("b", "not_equal", <<"x">>)>>, <<>>)>>),
      \* a has a source_column and waits for the replaced b; b waits for a = 1
      ("b" :> <<MSpec("fixed_value", "value" :> JStr(<<"R">>),
                      <<Cond("a", "equal", <<"1">>)>>, <<>>)>>)
          @@ ("a" :> <<MSpec("fixed_value",
                             ("value" :> JStr(<<"1">>)) @@ ("source_column" :> JStr(<<"b">>)),
                             <<Cond("b", "equal", <<"R">>)>>, <<>>)>>) }

\* the rows of the model's COPY payloads: two columns, and one row of one column
RowLines ==
    {<<a, TAB, b>> : a \in {"1", "2"}, b \in {"x", "7"}} \cup {<<"z">>}

Tapes == [1..MaxDraws -> 1..RandRange]

-----------------------------------------------------------------------------
(* SpecRows: the line mutator under a configured directive set.  The COPY    *)
(* payloads of a run follow each other as the drivers make them:             *)
(* setup_table, process_line for each row, reset_table.                      *)

RunIdle ==
    /\ input = <<>>
    /\ pos = 0
    /\ output = <<>>
    /\ is_data = FALSE
    /\ comment_buf = NoneValue
    /\ status = "run"
    /\ header = NoneValue
    /\ entries = <<>>

ProcInit ==
    /\ table_mutations = EmptyMap
    /\ current_table = ""
    /\ current_columns = <<>>
    /\ column_indices = EmptyMap
    /\ current_mutations = EmptyMap
    /\ is_delete_table = FALSE
    /\ sorted_columns = <<>>
    /\ unique_tracker = {}
    /\ relation_tracker = EmptyRelations

RowsInit ==
    /\ ProcInit
    \* no integer is decoded in these runs: the build makes no difference
    /\ overflow_checks = FALSE
    /\ delete_patterns = <<>>
    /\ \E d \in DirectiveSets : mutation_map = [t \in {"t1", "t2"} |-> d]
    /\ secrets = {"SECRET_KEY", "SECRET_KEY_NONCE"}
    /\ RunIdle
    /\ log = <<>>

RowsOf(l) == SelectSeq(l, LAMBDA e : e.kind = "row")

RowsSetup ==
    /\ current_table = ""
    /\ Len(SelectSeq(log, LAMBDA e : e.kind = "setup")) < MaxPayloads
    /\ \E c \in {c \in CopyStatements : c.table \in {"t1", "t2"}} :
        /\ SetupTableFields(c)
        /\ log' = Append(log, [kind |-> "setup", table |-> c.table])
    /\ UNCHANGED runVars

RowsLine ==
    /\ current_table # ""
    /\ Len(RowsOf(log)) < MaxRows
    /\ \E line \in RowLines, tape \in Tapes :
        LET res == process_line(line, tape) IN
        /\ unique_tracker' = res.ut
        /\ relation_tracker' = res.rt
        /\ log' = Append(log, [kind |-> "row", table |-> current_table,
                               columns |-> current_columns, order |-> sorted_columns,
                               line |-> line, out |-> res.out, ev |-> res.ev,
                               rv |-> res.rv])
    /\ UNCHANGED <<mutation_map, table_mutations, delete_patterns, secrets, overflow_checks, current_table,
                   current_columns, column_indices, current_mutations, is_delete_table,
                   sorted_columns>>
    /\ UNCHANGED runVars

RowsReset ==
    /\ current_table # ""
    /\ ResetTableFields
    /\ log' = Append(log, [kind |-> "reset", table |-> current_table])
    /\ UNCHANGED runVars

RowsNext == RowsSetup \/ RowsLine \/ RowsReset

SpecRows == RowsInit /\ [][RowsNext]_vars

(***************************************************************************)
(* Properties of the rows, read off the history of the calls.              *)
(***************************************************************************)

\* the rows process_line split and rewrote
Rewritten == {i \in 1..Len(log) : /\ log[i].kind = "row"
                                  /\ log[i].out.some
                                  /\ Len(log[i].rv) = Len(log[i].columns)}

\* rows i and j belong to one COPY payload
SamePayload(i, j) == \A k \in i..j : log[k].kind = "row"

\* the input value of a row at a column
InputAt(e, col) == Split(e.line, delimiter)[ColumnIndices(e.columns)[col]]

\* the value of a row at a column as emitted
EmittedAt(e, col) == e.rv[ColumnIndices(e.columns)[col]]

\* the specs of a row's table that mutate the column
SpecsOf(e, col) == mutation_map[e.table][col]

\* the columns of a row that have directives
Directed(e) == DOMAIN mutation_map[e.table] \cap Range(e.columns)

\* the specs visited for a column of a row
Visits(e, col) == SelectSeq(e.ev, LAMBDA v : v.col = col)

Applied == {"relation", "generated"}

\* C2: every emitted row holds as many delimiters as the input row it comes
\* from, whatever the directives.
C2_DelimiterCount ==
    \A i \in 1..Len(log) :
        (log[i].kind = "row" /\ log[i].out.some) =>
            Count(log[i].out.v, delimiter) = Count(log[i].line, delimiter)

\* a spec of the column carries a relation, and the row got as far as that spec
UnderRelation(e, col) ==
    \E k \in 1..Len(e.ev) :
        /\ e.ev[k].col = col
        /\ e.ev[k].what # "skipped"
        /\ Len(SpecsOf(e, col)[e.ev[k].spec].relations) > 0

\* C3: two rows mutated under a spec with the same relation, whose input
\* values at the relation's from column are equal, are emitted with equal
\* values in the mutated column.
C3_RelationConsistency ==
    \A i, j \in Rewritten :
        \A col \in Directed(log[i]) \cap Directed(log[j]) :
            ( /\ i < j
              /\ UnderRelation(log[i], col) /\ UnderRelation(log[j], col)
              /\ InputAt(log[i], RelAB.from_column_name) = InputAt(log[j], RelAB.from_column_name) )
            => EmittedAt(log[i], col) = EmittedAt(log[j], col)

\* a directive of the column asks for unique values
IsUniqueColumn(e, col) ==
    \E spec \in Range(SpecsOf(e, col)) : get_bool_kwarg(spec.mutation_kwargs, "unique")

\* C4: no two rows of one COPY payload are emitted with the same value in a
\* column whose directive has unique: true (the run never fails here).
C4_Uniqueness ==
    \A i, j \in Rewritten :
        \A col \in Directed(log[i]) :
            (i < j /\ SamePayload(i, j) /\ IsUniqueColumn(log[i], col))
            => EmittedAt(log[i], col) # EmittedAt(log[j], col)

\* the position of a column in the order of evaluation
Pos(order, col) == CHOOSE k \in 1..Len(order) : order[k] = col

\* a spec of column B names column A as its source_column
References(e, B, A) ==
    \E spec \in Range(SpecsOf(e, B)) :
        LET src == get_str_kwarg(spec.mutation_kwargs, "source_column") IN
        src.some /\ NameOf(src.v) = A

\* the generator of column B ran after column A was replaced, and was handed
\* the value A is emitted with
SawMutated(e, B, A) ==
    \A k \in 1..Len(e.ev) :
        (e.ev[k].col = B /\ \E m \in 1..Len(e.ev) : e.ev[m].col = A /\ e.ev[m].what \in Applied)
        => /\ A \in DOMAIN e.ev[k].obf
           /\ e.ev[k].obf[A] = EmittedAt(e, A)

\* C5 as stated: whenever B references A through source_column and A has a
\* directive, A is processed before B and B's generator sees the replaced A,
\* also when A's directive has a source_column of its own.
C5_SourceFirst ==
    \A i \in Rewritten :
        \A A, B \in Directed(log[i]) :
            (A # B /\ References(log[i], B, A))
            => /\ Pos(log[i].order, A) < Pos(log[i].order, B)
               /\ SawMutated(log[i], B, A)

\* C5, amended: whenever B references A through source_column and A has a
\* directive none of whose specs carries a source_column, A is processed
\* before B and B's generator sees the replaced A.
C5_SourceFirstAmended ==
    \A i \in Rewritten :
        \A A, B \in Directed(log[i]) :
            (A # B /\ References(log[i], B, A) /\ ~HasSource(mutation_map[log[i].table], A))
            => /\ Pos(log[i].order, A) < Pos(log[i].order, B)
               /\ SawMutated(log[i], B, A)

\* a row of a table whose header names B before A, where B was derived from
\* the replaced A
C5_Witness ==
    \E i \in Rewritten :
        LET e == log[i] IN
        /\ e.columns = <<"b", "a">>
        /\ References(e, "b", "a") /\ ~HasSource(mutation_map[e.table], "a")
        /\ \E k \in 1..Len(e.ev) :
              /\ e.ev[k].col = "b" /\ e.ev[k].what = "generated"
              /\ "a" \in DOMAIN e.ev[k].obf
              /\ e.ev[k].obf["a"] # InputAt(e, "a")

\* C9: per column and row the specs are tried in list order; a spec is passed
\* over exactly when its conditions fail, or when neither its relation lookup
\* nor its generator gives a value; the first other spec is applied, its value
\* is the one emitted, and no later spec is evaluated.
C9_FirstMatchWins ==
    \A i \in Rewritten :
        \A col \in Directed(log[i]) :
            LET e == log[i]
                E == Visits(e, col)
                specs == SpecsOf(e, col)
            IN
            /\ Len(E) <= Len(specs)
            /\ \A k \in 1..Len(E) :
                  /\ E[k].spec = k
                  /\ k < Len(E) => E[k].what \notin Applied
                  /\ E[k].what = "skipped"
                        <=> ~check_conditions(specs[k].conditions, E[k].rv,
                                              ColumnIndices(e.columns))
            /\ Len(E) < Len(specs) => (Len(E) > 0 /\ E[Len(E)].what \in Applied)
            /\ Cardinality({k \in 1..Len(E) : E[k].what \in Applied}) <= 1
            /\ IF Len(E) > 0 /\ E[Len(E)].what \in Applied
               THEN EmittedAt(e, col) = E[Len(E)].val
               ELSE EmittedAt(e, col) = InputAt(e, col)

\* a row where the first spec of a column failed, the second applied, and the
\* third, whose conditions hold as well, was left alone
C9_Witness ==
    \E i \in Rewritten :
        \E col \in Directed(log[i]) :
            LET e == log[i]
                E == Visits(e, col)
            IN
            /\ Len(E) = 2 /\ Len(SpecsOf(e, col)) = 3
            /\ E[1].what = "failed" /\ E[2].what = "generated"
            /\ check_conditions(SpecsOf(e, col)[3].conditions, e.rv, ColumnIndices(e.columns))

\* the directives and the relations of the tracker are kept by a step
DirectivesKept ==
    /\ \A t \in DOMAIN mutation_map :
          /\ t \in DOMAIN mutation_map'
          /\ \A c \in DOMAIN mutation_map[t] :
                /\ c \in DOMAIN mutation_map'[t]
                /\ Len(mutation_map[t][c]) <= Len(mutation_map'[t][c])
                /\ SubSeq(mutation_map'[t][c], 1, Len(mutation_map[t][c])) = mutation_map[t][c]
    /\ \A t \in DOMAIN table_mutations :
          t \in DOMAIN table_mutations' /\ table_mutations'[t] = table_mutations[t]

RelationsKept ==
    \A k \in DOMAIN relation_tracker.fk_map :
        /\ RelationLookup(relation_tracker, k[1], k[2], k[3]).some
        /\ RelationLookup(relation_tracker', k[1], k[2], k[3])
              = RelationLookup(relation_tracker, k[1], k[2], k[3])

\* C21: when setup_table has run, the unique tracker is empty for the first
\* row of the payload; and no step (setup_table, process_line, reset_table)
\* takes away a value the relation tracker holds or a directive registered
C21_TrackerLifetimes ==
    /\ [](\A i \in 1..Len(log) :
            (log[i].kind = "setup" /\ i = Len(log)) => unique_tracker = {})
    /\ [][DirectivesKept /\ RelationsKept]_vars

\* a second payload is set up after a row of the first drew a unique value and
\* stored a relation: the unique tracker is empty, the relation is there
C21_Witness ==
    /\ Len(log) >= 4 /\ log[Len(log)].kind = "setup"
    /\ \E i \in Rewritten :
          \E k \in 1..Len(log[i].ev) :
              /\ log[i].ev[k].what = "generated"
              /\ get_bool_kwarg(SpecsOf(log[i], log[i].ev[k].col)[log[i].ev[k].spec].mutation_kwargs,
                                "unique")
    /\ unique_tracker = {}
    /\ DOMAIN relation_tracker.fk_map # {}

SeenValue(e, j, d) ==
    LET before == {k \in 1..(j - 1) : e.ev[k].col = d /\ e.ev[k].what \in Applied} IN
    IF before = {} THEN Split(e.line, delimiter)[ColumnIndices(e.columns)[d]]
    ELSE e.ev[CHOOSE k \in before : \A m \in before : m <= k].val

\* the values of the row as SeenValue gives them, in the order of the header
SeenValues(e, j) == [i \in 1..Len(e.columns) |-> SeenValue(e, j, e.columns[i])]

\* the place of a column in the evaluation order: the columns without a
\* source_column before those with one, each group in the order of the header
EvalRank(e, c) ==
    (IF HasSource(mutation_map[e.table], c) THEN Len(e.columns) ELSE 0)
        + ColumnIndices(e.columns)[c]

\* C34: the conditions of a spec see, for every column, the replacement a spec
\* of that column made earlier in the row and the value of the line otherwise,
\* and the columns are taken in the order of sorted_columns (columns with a
\* source_column last), not in the order of the COPY header
C34_ConditionsSeeReplacements ==
    \A i \in 1..Len(log) :
        log[i].kind = "row" =>
            \A j \in 1..Len(log[i].ev) :
                \E e \in {log[i]} :
                /\ e.ev[j].rv = SeenValues(e, j)
                /\ (e.ev[j].what = "skipped") =
                       ~check_conditions(mutation_map[e.table][e.ev[j].col][e.ev[j].spec].conditions,
                                         SeenValues(e, j), ColumnIndices(e.columns))
                /\ \A k \in 1..(j - 1) : EvalRank(e, e.ev[k].col) <= EvalRank(e, e.ev[j].col)

\* in table t1 (a, b) the spec of b is reached first and sees a = 1 of the
\* line, and the spec of a, reached second, sees the R that replaced b
C34_Witness ==
    \E i \in 1..Len(log) :
        /\ log[i].kind = "row" /\ log[i].columns = <<"a", "b">>
        /\ log[i].line = <<"1", TAB, "x">>
        /\ Len(log[i].ev) = 2
        /\ log[i].ev[1].col = "b" /\ log[i].ev[1].what = "generated"
        /\ Len(mutation_map["t1"]["b"][1].conditions) = 1
        /\ log[i].ev[2].col = "a" /\ log[i].ev[2].what = "generated"
        /\ log[i].ev[2].rv = <<<<"1">>, <<"R">>>>
        /\ log[i].out = Some(<<"1", TAB, "R">>)

(***************************************************************************)
(* check_conditions on its own: the arguments are drawn at the start and   *)
(* the call is the one step.                                               *)
(***************************************************************************)

\* the conditions of the calls: a column of the header or not, the three
\* operations and an unknown one, a literal and a pattern that does not compile
CondSet ==
    {Cond(c, op, v) : c \in {"a", "b", "c"},
                      op \in {"equal", "not_equal", "by_pattern", "like"},
                      v \in {<<"1">>, <<"(">>}}

\* the lists of at most n conditions
RECURSIVE CondLists(_)
CondLists(n) ==
    IF n = 0 THEN {<<>>}
    ELSE LET shorter == CondLists(n - 1) IN
         shorter \cup {Append(l, c) : l \in {l \in shorter : Len(l) = n - 1}, c \in CondSet}

\* the rows of the calls; the last is shorter than the header
CondRows == {<<<<"1">>, <<"x">>>>, <<<<"2">>, <<"1", "0">>>>, <<<<"(">>, <<"1">>>>, <<<<"1">>>>}

CondInit ==
    /\ ProcInit
    /\ overflow_checks = FALSE
    /\ delete_patterns = <<>>
    /\ mutation_map = EmptyMap
    /\ secrets = {}
    /\ RunIdle
    /\ \E conditions \in CondLists(MaxConds), values \in CondRows :
          log = <<[kind |-> "args", conditions |-> conditions, values |-> values,
                   indices |-> ColumnIndices(<<"a", "b">>)]>>

CondCall ==
    /\ Len(log) = 1
    /\ log' = Append(log, [kind |-> "result",
                           r |-> check_conditions(log[1].conditions, log[1].values,
                                                  log[1].indices)])
    /\ UNCHANGED <<procVars, runVars>>

CondNext == CondCall

SpecCond == CondInit /\ [][CondNext]_vars

\* the condition names a column of the row and its operation holds of the
\* column's value
Matches(c, values, indices) ==
    /\ c.column_name \in DOMAIN indices
    /\ indices[c.column_name] <= Len(values)
    /\ \/ c.operation = "equal" /\ values[indices[c.column_name]] = c.value
       \/ c.operation = "not_equal" /\ values[indices[c.column_name]] # c.value
       \/ /\ c.operation = "by_pattern"
          /\ "(" \notin Range(c.value)
          /\ Contains(values[indices[c.column_name]], c.value)

\* a condition that can never match: an absent column, an unknown operation or
\* a pattern that does not compile
NeverMatches(c, values, indices) ==
    \/ c.column_name \notin DOMAIN indices
    \/ c.operation \notin {"equal", "not_equal", "by_pattern"}
    \/ c.operation = "by_pattern" /\ "(" \in Range(c.value)

\* C10: check_conditions is true exactly when the list is empty or at least
\* one condition matches; a list of conditions on absent columns, unknown
\* operations or invalid patterns only is never satisfied.
C10_AnyCondition ==
    (Len(log) = 2 /\ log[2].kind = "result") =>
        LET a == log[1] IN
        /\ log[2].r <=> ( \/ Len(a.conditions) = 0
                          \/ \E i \in 1..Len(a.conditions) :
                                Matches(a.conditions[i], a.values, a.indices) )
        /\ ( /\ Len(a.conditions) > 0
             /\ \A i \in 1..Len(a.conditions) :
                   NeverMatches(a.conditions[i], a.values, a.indices) )
           => ~log[2].r

\* a call with a condition that cannot match followed by one that does
C10_Witness ==
    /\ Len(log) = 2 /\ log[2].kind = "result" /\ log[2].r
    /\ Len(log[1].conditions) = 2
    /\ NeverMatches(log[1].conditions[1], log[1].values, log[1].indices)
    /\ Matches(log[1].conditions[2], log[1].values, log[1].indices)

(***************************************************************************)
(* format/plain.rs: PlainHandler::process.  The input is read a line at a  *)
(* time; `input` holds the bytes read so far, `pos` the number of lines,   *)
(* and `log` what became of each line.                                     *)
(***************************************************************************)

EndOfData == "\\."

\* the lines of the model's dumps, without their terminators
PlainContents ==
    { <<"SET x;">>, <<"COPY t1 (a, b) FROM stdin;">>, <<"COPY logs (a) FROM stdin;">>,
      <<EndOfData>>, <<"1", TAB, "x">>, <<CommentTable>>, <<CommentColumn>>,
      <<CommentOpen>>, <<CommentClose>>, <<BAD>>,
      <<CommentNull>>, <<CommentColumnBad>>, <<CommentTableBad>> }

\* a line as it lies in the input: ended by LF, by CR LF, or by the end of the input
RawLines == {c \o t : c \in PlainContents, t \in {<<LF>>, <<CR, LF>>, <<>>}}

\* what BufRead::lines yields for the bytes of a line: the LF is dropped, and
\* a CR before it
StripEol(raw) ==
    LET n == Len(raw) IN
    IF n > 0 /\ raw[n] = LF
    THEN IF n > 1 /\ raw[n - 1] = CR THEN SubSeq(raw, 1, n - 2) ELSE SubSeq(raw, 1, n - 1)
    ELSE raw

\* the line opens a directive that goes on in the following lines
OpensComment(line) ==
    /\ Len(line) > 0 /\ line[1] \in {CommentColumn, CommentOpen, CommentTable,
                                      CommentNull, CommentColumnBad, CommentTableBad}
    /\ ~EndsWithQuoteSemi(line)

PlainInit ==
    /\ ProcInit
    \* the plain driver decodes no integer: the build makes no difference
    /\ overflow_checks = FALSE
    /\ delete_patterns \in {<<>>, <<<<"logs">>>>}
    /\ mutation_map = EmptyMap
    /\ secrets = {"SECRET_KEY", "SECRET_KEY_NONCE"}
    /\ input = <<>> /\ pos = 0 /\ output = <<>>
    /\ is_data = FALSE /\ comment_buf = NoneValue /\ status = "run"
    /\ header = NoneValue /\ entries = <<>>
    /\ log = <<>>

\* the next line is read: the bytes are taken from the input
ReadLine(raw) ==
    /\ status = "run"
    /\ pos < MaxLines
    /\ input' = input \o raw
    /\ pos' = pos + 1
    /\ status' = IF raw[Len(raw)] = LF THEN "run" ELSE "eof"
    /\ UNCHANGED <<header, entries>>

Line(kind, line) == [kind |-> kind, line |-> line]

\* `line_result?` on a line that is not UTF-8
PlainBadLine ==
    /\ status = "run" /\ pos < MaxLines
    /\ \E raw \in RawLines :
        /\ ~IsUtf8(raw)
        /\ input' = input \o raw
        /\ pos' = pos + 1
    /\ status' = "failed"
    /\ UNCHANGED <<procVars, output, is_data, comment_buf, header, entries, log>>

\* is_data and the line is `\.`
PlainDataEnd ==
    \E raw \in RawLines :
        /\ IsUtf8(raw) /\ ReadLine(raw)
        /\ is_data /\ StripEol(raw) = <<EndOfData>>
        /\ output' = IF ~is_delete THEN output \o <<EndOfData, LF>> ELSE output
        /\ is_data' = FALSE
        /\ ResetTableFields
        /\ log' = Append(log, Line(IF is_delete THEN "deleted" ELSE "plain", StripEol(raw)))
        /\ UNCHANGED comment_buf

\* a driver that tries parse_comment on the rows as well
PlainDataRowParsed ==
    \E raw \in RawLines, tape \in Tapes :
        LET line == StripEol(raw)
            res == process_line(line, tape)
        IN
        /\ IsUtf8(raw) /\ ReadLine(raw)
        /\ is_data /\ line # <<EndOfData>>
        /\ mutation_map' = parse_comment(line).mm
        /\ table_mutations' = parse_comment(line).tm
        /\ output' = IF res.out.some THEN output \o res.out.v \o <<LF>> ELSE output
        /\ unique_tracker' = res.ut
        /\ relation_tracker' = res.rt
        /\ log' = Append(log, IF res.out.some
                               THEN [kind |-> "row", line |-> res.out.v, src |-> line,
                                     columns |-> current_columns,
                                     directed |-> has_mutations]
                               ELSE Line("deleted", line))
        /\ UNCHANGED <<delete_patterns, secrets, overflow_checks, current_table,
                       current_columns, column_indices, current_mutations, is_delete_table,
                       sorted_columns, is_data, comment_buf>>

\* is_data and the line is a row
PlainDataRow ==
    \E raw \in RawLines, tape \in Tapes :
        LET line == StripEol(raw)
            res == process_line(line, tape)
        IN
        /\ IsUtf8(raw) /\ ReadLine(raw)
        /\ is_data /\ line # <<EndOfData>>
        /\ output' = IF res.out.some THEN output \o res.out.v \o <<LF>> ELSE output
        /\ unique_tracker' = res.ut
        /\ relation_tracker' = res.rt
        /\ log' = Append(log, IF res.out.some
                               THEN [kind |-> "row", line |-> res.out.v, src |-> line,
                                     columns |-> current_columns,
                                     directed |-> has_mutations]
                               ELSE Line("deleted", line))
        /\ UNCHANGED <<mutation_map, table_mutations, delete_patterns, secrets, overflow_checks, current_table,
                       current_columns, column_indices, current_mutations, is_delete_table,
                       sorted_columns, is_data, comment_buf>>

\* the accumulator is open: the line is added, and a line ending in `';` closes it
PlainAccumulate ==
    \E raw \in RawLines :
        LET line == StripEol(raw)
            buf == comment_buf.v \o <<LF>> \o line
        IN
        /\ IsUtf8(raw) /\ ReadLine(raw)
        /\ ~is_data /\ comment_buf.some
        /\ IF EndsWithQuoteSemi(line)
           THEN /\ comment_buf' = NoneValue
                /\ mutation_map' = parse_comment(buf).mm
                /\ table_mutations' = parse_comment(buf).tm
                /\ output' = output \o buf \o <<LF>>
           ELSE /\ comment_buf' = Some(buf)
                /\ UNCHANGED <<mutation_map, table_mutations, output>>
        /\ log' = Append(log, Line("plain", line))
        /\ UNCHANGED <<delete_patterns, secrets, overflow_checks, current_table, current_columns, column_indices,
                       current_mutations, is_delete_table, sorted_columns, unique_tracker,
                       relation_tracker, is_data>>

\* the line opens a directive of several lines
PlainOpenComment ==
    \E raw \in RawLines :
        /\ IsUtf8(raw) /\ ReadLine(raw)
        /\ ~is_data /\ ~comment_buf.some /\ OpensComment(StripEol(raw))
        /\ comment_buf' = Some(StripEol(raw))
        /\ log' = Append(log, Line("plain", StripEol(raw)))
        /\ UNCHANGED <<procVars, output, is_data>>

\* the line is a COPY statement (none of the model's is a directive as well)
PlainCopy ==
    \E raw \in RawLines :
        LET line == StripEol(raw) IN
        /\ IsUtf8(raw) /\ ReadLine(raw)
        /\ ~is_data /\ ~comment_buf.some /\ ~OpensComment(line)
        /\ ~parse_comment(line).matched
        /\ CopyCaptures(line).some
        /\ SetupTableFields(CopyCaptures(line).v)
        /\ output' = IF ~is_delete' THEN output \o line \o <<LF>> ELSE output
        /\ is_data' = TRUE
        /\ log' = Append(log, Line(IF is_delete' THEN "deleted" ELSE "plain", line))
        /\ UNCHANGED comment_buf

\* any other line: parse_comment is tried on it, and it is written
PlainOther ==
    \E raw \in RawLines :
        LET line == StripEol(raw) IN
        /\ IsUtf8(raw) /\ ReadLine(raw)
        /\ ~is_data /\ ~comment_buf.some /\ ~OpensComment(line)
        /\ ~CopyCaptures(line).some
        /\ mutation_map' = parse_comment(line).mm
        /\ table_mutations' = parse_comment(line).tm
        /\ output' = output \o line \o <<LF>>
        /\ log' = Append(log, Line("plain", line))
        /\ UNCHANGED <<delete_patterns, secrets, overflow_checks, current_table, current_columns, column_indices,
                       current_mutations, is_delete_table, sorted_columns, unique_tracker,
                       relation_tracker, is_data, comment_buf>>

\* the input has ended: writer.flush() and Ok(())
PlainFinish ==
    /\ status \in {"run", "eof"}
    /\ status' = "done"
    /\ UNCHANGED <<procVars, input, pos, output, is_data, comment_buf, header, entries, log>>

PlainNext ==
    \/ PlainBadLine \/ PlainDataEnd \/ PlainDataRow \/ PlainAccumulate
    \/ PlainOpenComment \/ PlainCopy \/ PlainOther \/ PlainFinish

SpecPlain == PlainInit /\ [][PlainNext]_vars

\* no line of the input holds `anon:`
NoAnon ==
    \A i \in 1..Len(input) :
        input[i] \notin {CommentColumn, CommentOpen, CommentTable,
                         CommentNull, CommentColumnBad, CommentTableBad}

\* C1: on an input without an `anon:` comment, and with no delete pattern,
\* the output of a finished run is the input byte for byte, whatever the line
\* endings and whether or not the last line ends with a newline.
C1_Passthrough ==
    (status = "done" /\ delete_patterns = <<>> /\ NoAnon) => output = input

\* the lines of the log that are not of the payload of a deleted table, each
\* followed by a newline
RECURSIVE Kept(_)
Kept(l) ==
    IF l = <<>> THEN <<>>
    ELSE IF Head(l).kind = "deleted" THEN Kept(Tail(l))
    ELSE Head(l).line \o <<LF>> \o Kept(Tail(l))

\* C8: when the run has met the COPY of a delete-marked table, the output
\* holds neither its header, nor its rows, nor its terminator, and holds
\* every other line of the input unchanged and in order.
C8_DeleteTable ==
    (status = "done" /\ \E i \in 1..Len(log) : log[i].kind = "deleted")
    => output = Kept(log)

\* the bytes of the last line read, its terminator aside
LastLineOf(bytes) ==
    Bind({i \in 1..(Len(bytes) - 1) : bytes[i] = LF}, LAMBDA ends :
    Bind(IF ends = {} THEN 0 ELSE CHOOSE i \in ends : \A j \in ends : j <= i, LAMBDA last :
        StripEol(SubSeq(bytes, last + 1, Len(bytes)))))

\* the line has as many fields as the COPY header has columns
FieldsFit(line, columns) == Len(Split(line, delimiter)) = Len(columns)

\* C11: a COPY row whose number of fields differs from the number of columns
\* of the COPY header, in a table with directives that is not deleted, is
\* emitted byte for byte unchanged, and the run goes on to the next row: the
\* run does not fail on such a row.
C11_FieldCountFallThrough ==
    /\ \A i \in 1..Len(log) :
        (/\ log[i].kind = "row" /\ log[i].directed
         /\ ~FieldsFit(log[i].src, log[i].columns)) => log[i].line = log[i].src
    /\ ~(/\ status = "failed" /\ is_data /\ ~is_delete /\ has_mutations
         /\ ~FieldsFit(LastLineOf(input), current_columns))

\* C12: a COPY row that is not valid UTF-8 is emitted byte for byte unchanged
\* and the run goes on with the rows after it: the run never fails on a row
\* that does not decode.
C12_InvalidUtf8Row ==
    /\ \A i \in 1..Len(log) :
        (log[i].kind = "row" /\ ~IsUtf8(log[i].src)) => log[i].line = log[i].src
    /\ ~(status = "failed" /\ is_data /\ ~IsUtf8(LastLineOf(input)))

\* the line a step of the plain driver has read
NewLine == log'[Len(log')].line

\* the text the step hands to parse_comment: the line, or the accumulated
\* comment the line closes
CommentParsed == IF comment_buf.some THEN comment_buf.v \o <<LF>> \o NewLine ELSE NewLine

\* the step calls parse_comment on a line outside the COPY payloads
ParseStep ==
    /\ Len(log') = Len(log) + 1 /\ ~is_data
    /\ log'[Len(log')].kind = "plain"
    /\ IF comment_buf.some THEN EndsWithQuoteSemi(NewLine) ELSE ~OpensComment(NewLine)

\* the specs registered for a column
RegisteredIn(mm, table, column) ==
    IF table \in DOMAIN mm /\ column \in DOMAIN mm[table] THEN mm[table][column] ELSE <<>>

\* C24: a COMMENT ON COLUMN directive that parses is appended to the specs
\* its table and column already have in the mutation map: the specs of an
\* earlier directive stay in front of it
C24_DirectivesAppended ==
    [][ParseStep => \A col \in {ColumnCaptures(CommentParsed)} :
          (col.some /\ col.v.specs.some) =>
              RegisteredIn(mutation_map', col.v.table, col.v.column)
                  = RegisteredIn(mutation_map, col.v.table, col.v.column) \o col.v.specs.v]_vars

\* C25: a COMMENT ON COLUMN or COMMENT ON TABLE directive whose payload is
\* not JSON leaves the mutation map and the table mutations as they were,
\* does not fail the run, and the plain driver writes the comment as it read it
C25_MalformedIgnored ==
    [][ParseStep =>
        \A col \in {ColumnCaptures(CommentParsed)}, tab \in {TableCaptures(CommentParsed)} :
          (\/ col.some /\ ~col.v.specs.some
           \/ ~col.some /\ tab.some /\ ~tab.v.spec.some) =>
              /\ mutation_map' = mutation_map
              /\ table_mutations' = table_mutations
              /\ status' # "failed"
              /\ output' = output \o CommentParsed \o <<LF>>]_vars

\* a column directive was registered, and a directive on the same column
\* whose payload is no JSON has been read since
C25_Witness ==
    /\ Len(log) >= 2 /\ log[Len(log)].kind = "plain"
    /\ log[Len(log)].line = <<CommentColumnBad>>
    /\ \E i \in 1..(Len(log) - 1) : log[i].kind = "plain" /\ log[i].line = <<CommentColumn>>
    /\ RegisteredIn(mutation_map, "t1", "b") = CommentSpecs
    /\ EndsWith(output, <<CommentColumnBad, LF>>)

(***************************************************************************)
(* format/custom/io.rs: DumpIO.  A byte that is a number is the atom       *)
(* Byte(n); the bytes of a string are atoms of text.  A reader is the      *)
(* sequence of the bytes not yet read, a writer the sequence written.      *)
(***************************************************************************)

Byte(n) == "#" \o ToString(n)

ByteValues == [s \in {Byte(n) : n \in 0..255} |-> CHOOSE n \in 0..255 : Byte(n) = s]

\* the value of a byte; a byte of text is no byte the model writes in a number
ByteValue(b) == IF b \in DOMAIN ByteValues THEN ByteValues[b] ELSE 255

\* i32::MIN
MinI32 == -2147483647 - 1

\* `-value` on an i32, wrapping
WrappingNeg(value) == IF value = MinI32 THEN MinI32 ELSE -value

\* the result of a read: [ok, val, rd, wr, panic], panic when the read did not
\* return at all
Failed(rd, wr) == [ok |-> FALSE, val |-> 0, rd |-> rd, wr |-> wr, panic |-> FALSE]

\* Read::read_exact of n bytes, written through or not; a reader that has
\* fewer is read to its end before the error
ReadExact(rd, wr, n, bypass) ==
    IF Len(rd) < n THEN Failed(<<>>, wr)
    ELSE [ok |-> TRUE, val |-> SubSeq(rd, 1, n), rd |-> SubSeq(rd, n + 1, Len(rd)),
          wr |-> IF bypass THEN wr \o SubSeq(rd, 1, n) ELSE wr, panic |-> FALSE]

\* DumpIO::read_byte, and the write_all of the byte that follows it
ReadByteBypass(rd, wr) ==
    Bind(ReadExact(rd, wr, 1, TRUE), LAMBDA r :
        IF r.ok THEN [r EXCEPT !.val = ByteValue(r.val[1])] ELSE r)

\* the first four bytes of a little-endian number as an i32: the top bit of
\* the fourth byte is the sign bit
LowBytes(bytes) ==
    LET b(i) == IF i <= Len(bytes) THEN ByteValue(bytes[i]) ELSE 0 IN
    b(1) + 256 * b(2) + 65536 * b(3) + 16777216 * (b(4) % 128)
        + (IF b(4) >= 128 THEN MinI32 ELSE 0)

\* a | b on the k low bits
RECURSIVE OrBits(_, _, _)
OrBits(a, b, k) ==
    IF k = 0 THEN 0
    ELSE (IF a % 2 = 1 \/ b % 2 = 1 THEN 1 ELSE 0) + 2 * OrBits(a \div 2, b \div 2, k - 1)

\* the loop `value |= (b as i32) << shift` over the magnitude bytes, as it
\* runs where overflow wraps: the shift of an i32 is taken modulo 32, so the
\* fifth to eighth bytes are or-ed onto the first to fourth
Magnitude(bytes) ==
    LET b(i) == IF i <= Len(bytes) THEN ByteValue(bytes[i]) ELSE 0 IN
    IF Len(bytes) <= 4 THEN LowBytes(bytes)
    ELSE LowBytes([j \in 1..4 |-> Byte(OrBits(b(j), b(j + 4), 8))])

\* the overflow of read_int: a shift of 32 bits or more, reached by the fifth
\* magnitude byte, or the negation of i32::MIN
ReadIntOverflows(int_size, sign, value) ==
    int_size > 4 \/ (sign # 0 /\ value = MinI32)

\* DumpIO::read_int and DumpIO::read_int_bypass: the sign byte, then int_size
\* bytes, least significant first; where overflow is checked the overflow
\* panics, after the bytes were read and written
ReadInt(rd, wr, int_size, bypass) ==
    Bind(ReadExact(rd, wr, 1, bypass), LAMBDA sign :
    Bind(ReadExact(sign.rd, sign.wr, int_size, bypass), LAMBDA mag :
    Bind(Magnitude(mag.val), LAMBDA value :
        IF ~sign.ok THEN sign
        ELSE IF ~mag.ok THEN mag
        ELSE IF overflow_checks /\ ReadIntOverflows(int_size, ByteValue(sign.val[1]), value)
        THEN [mag EXCEPT !.ok = FALSE, !.val = 0, !.panic = TRUE]
        ELSE [mag EXCEPT !.val = IF ByteValue(sign.val[1]) # 0 THEN WrappingNeg(value)
                                  ELSE value])))

read_int(rd, int_size) == ReadInt(rd, <<>>, int_size, FALSE)

read_int_bypass(rd, wr, int_size) == ReadInt(rd, wr, int_size, TRUE)

\* `current >>= 8`, k times
RECURSIVE ShiftRight8(_, _)
ShiftRight8(current, k) ==
    IF k = 0 THEN current
    ELSE ShiftRight8((current - (current % 256)) \div 256, k - 1)

\* DumpIO::write_int: the bytes written, the sign and the int_size low bytes
\* of the magnitude
write_int(val, int_size) ==
    LET v_abs == IF val < 0 THEN WrappingNeg(val) ELSE val IN
    <<Byte(IF val < 0 THEN 1 ELSE 0)>>
        \o [i \in 1..int_size |-> Byte(ShiftRight8(v_abs, i - 1) % 256)]

\* String::from_utf8_lossy: a byte that is not UTF-8 becomes U+FFFD
FromUtf8Lossy(bytes) == [i \in 1..Len(bytes) |-> IF bytes[i] = BAD THEN "U+FFFD" ELSE bytes[i]]

\* a read of a string that writes the length through and not the bytes
ReadStringLengthOnly(rd, wr, int_size) ==
    Bind(read_int_bypass(rd, wr, int_size), LAMBDA len :
    Bind(ReadExact(len.rd, len.wr, len.val, FALSE), LAMBDA body :
        IF ~len.ok THEN len
        ELSE IF len.val <= 0 THEN [len EXCEPT !.val = NoneValue]
        ELSE IF ~body.ok THEN body
        ELSE [body EXCEPT !.val = Some(FromUtf8Lossy(body.val))]))

\* DumpIO::read_string_bypass: val is the Option<String>
read_string_bypass(rd, wr, int_size) ==
    Bind(read_int_bypass(rd, wr, int_size), LAMBDA len :
    Bind(ReadExact(len.rd, len.wr, len.val, TRUE), LAMBDA body :
        IF ~len.ok THEN len
        ELSE IF len.val <= 0 THEN [len EXCEPT !.val = NoneValue]
        ELSE IF ~body.ok THEN body
        ELSE [body EXCEPT !.val = Some(FromUtf8Lossy(body.val))]))

\* DumpIO::read_offset_bypass: the i64 is kept to its low 32 bits, nothing
\* reads it
read_offset_bypass(rd, wr, offset_size) ==
    Bind(ReadExact(rd, wr, offset_size, TRUE), LAMBDA r :
        IF r.ok THEN [r EXCEPT !.val = LowBytes(r.val)] ELSE r)

\* the same reads, going on from where the read r left the reader and the writer
ReadByteAfter(r) == ReadByteBypass(r.rd, r.wr)
ReadIntAfter(r, int_size) == read_int_bypass(r.rd, r.wr, int_size)
ReadStringAfter(r, int_size) == read_string_bypass(r.rd, r.wr, int_size)
ReadOffsetAfter(r, offset_size) == read_offset_bypass(r.rd, r.wr, offset_size)

(***************************************************************************)
(* format/custom/header.rs and format/custom/toc.rs                        *)
(***************************************************************************)

MAGIC_HEADER == <<"P", "G", "D", "M", "P">>

\* (vmaj, vmin, vrev) >= (maj, min, rev)
VersionAtLeast(vmaj, vmin, vrev, maj, min, rev) ==
    \/ vmaj > maj
    \/ vmaj = maj /\ vmin > min
    \/ vmaj = maj /\ vmin = min /\ vrev >= rev

\* Header::is_version_at_least
is_version_at_least(h, maj, min, rev) == VersionAtLeast(h.vmaj, h.vmin, h.vrev, maj, min, rev)

\* the seven integers of the timestamp: the reads go on from r, k are left
RECURSIVE TimestampLoop(_, _, _)
TimestampLoop(r, int_size, k) ==
    IF k = 0 \/ ~r.ok THEN r
    ELSE TimestampLoop(read_int_bypass(r.rd, r.wr, int_size), int_size, k - 1)

\* `match compression_algo`: the method of a header from 1.15 on, none for a
\* byte that is refused
CompressionOfAlgo(compression_algo) ==
    CASE compression_algo = 0 -> Some("None")
      [] compression_algo = 1 -> Some("Zlib")
      [] compression_algo = 2 -> Some("Lz4")
      [] compression_algo = 3 -> Some("Zstd")
      [] OTHER -> NoneValue

\* a level that is taken for none at all
CompressionOfLevelNoDefault(level) ==
    IF level = 0 THEN Some("None")
    ELSE IF level \in 1..9 THEN Some("Zlib")
    ELSE NoneValue

\* the method of a header before 1.15, from its level, none for a level that
\* is refused
CompressionOfLevel(level) ==
    IF level = 0 THEN Some("None")
    ELSE IF level = -1 \/ level \in 1..9 THEN Some("Zlib")
    ELSE NoneValue

\* parse_header: [ok, val, rd, wr], val the Header; what was written before
\* an error stays written
parse_header(reader, initial_bytes) ==
    Bind(IF Len(initial_bytes) >= 5 THEN 0 ELSE 5 - Len(initial_bytes), LAMBDA magic_remaining :
    Bind(ReadExact(reader, initial_bytes, magic_remaining, TRUE), LAMBDA magic :
    Bind(IF magic_remaining > 0 THEN initial_bytes \o magic.val = MAGIC_HEADER
         ELSE SubSeq(initial_bytes, 1, 5) = MAGIC_HEADER, LAMBDA magic_ok :
    Bind(ReadByteAfter(magic), LAMBDA vmaj :
    Bind(ReadByteAfter(vmaj), LAMBDA vmin :
    Bind(ReadByteAfter(vmin), LAMBDA vrev :
    Bind(ReadByteAfter(vrev), LAMBDA int_size :
    Bind(ReadByteAfter(int_size), LAMBDA offset_size :
    Bind(ReadByteAfter(offset_size), LAMBDA format :
    Bind(ReadByteAfter(format), LAMBDA algo :
    Bind(ReadIntAfter(format, int_size.val), LAMBDA level :
    Bind(VersionAtLeast(vmaj.val, vmin.val, vrev.val, 1, 15, 0), LAMBDA new :
    Bind(IF new THEN algo ELSE level, LAMBDA comp :
    Bind(IF new THEN CompressionOfAlgo(algo.val) ELSE CompressionOfLevel(level.val),
         LAMBDA compression :
    Bind(TimestampLoop(comp, int_size.val, 7), LAMBDA stamp :
    Bind(ReadStringAfter(stamp, int_size.val), LAMBDA db_name :
    Bind(ReadStringAfter(db_name, int_size.val), LAMBDA server_ver :
    Bind(ReadStringAfter(server_ver, int_size.val), LAMBDA dump_ver :
        IF ~magic.ok THEN magic
        ELSE IF ~magic_ok THEN Failed(magic.rd, magic.wr)
        ELSE IF ~vmaj.ok THEN vmaj
        ELSE IF ~vmin.ok THEN vmin
        ELSE IF ~vrev.ok THEN vrev
        ELSE IF vmaj.val < 1 \/ (vmaj.val = 1 /\ vmin.val < 12) THEN Failed(vrev.rd, vrev.wr)
        ELSE IF vmaj.val > 1 \/ (vmaj.val = 1 /\ vmin.val > 16) THEN Failed(vrev.rd, vrev.wr)
        ELSE IF ~int_size.ok THEN int_size
        ELSE IF ~offset_size.ok THEN offset_size
        ELSE IF int_size.val = 0 \/ int_size.val > 8 \/ offset_size.val = 0
                \/ offset_size.val > 8
        THEN Failed(offset_size.rd, offset_size.wr)
        ELSE IF ~format.ok THEN format
        ELSE IF format.val # 1 THEN Failed(format.rd, format.wr)
        ELSE IF ~comp.ok THEN comp
        ELSE IF ~compression.some THEN Failed(comp.rd, comp.wr)
        ELSE IF ~stamp.ok THEN stamp
        ELSE IF ~db_name.ok THEN db_name
        ELSE IF ~server_ver.ok THEN server_ver
        ELSE IF ~dump_ver.ok THEN dump_ver
        ELSE [dump_ver EXCEPT !.val = [vmaj |-> vmaj.val, vmin |-> vmin.val,
                                       vrev |-> vrev.val, int_size |-> int_size.val,
                                       offset_size |-> offset_size.val,
                                       format |-> format.val,
                                       compression |-> compression.v]]))))))))))))))))))

\* Option<String>::unwrap_or_default
UnwrapOrDefault(o) == IF o.some THEN o.v ELSE <<>>

\* Section::from_i32
SectionFromI32(val) ==
    CASE val = 1 -> "PreData" [] val = 2 -> "Data" [] val = 3 -> "PostData" [] OTHER -> "None"

\* DataState::from_i32
DataStateFromI32(val) ==
    CASE val = 1 -> "NeedData" [] val = 2 -> "NoData" [] OTHER -> "Unknown"

\* str::parse::<i32> of a dependency: the model's are of one digit
ParseDependency(text) ==
    IF Len(text) = 1 /\ text[1] \in DigitAtoms
    THEN Some(CHOOSE d \in 0..9 : ToString(d) = text[1])
    ELSE NoneValue

\* the `loop` over the dependency strings: val is the Vec of the ids parsed
RECURSIVE DependenciesLoop(_, _, _)
DependenciesLoop(r, int_size, deps) ==
    Bind(read_string_bypass(r.rd, r.wr, int_size), LAMBDA dep_str :
        IF ~dep_str.ok THEN dep_str
        ELSE IF dep_str.val.some /\ dep_str.val.v # <<>>
        THEN DependenciesLoop(dep_str, int_size,
                              IF ParseDependency(dep_str.val.v).some
                              THEN Append(deps, ParseDependency(dep_str.val.v).v) ELSE deps)
        ELSE [dep_str EXCEPT !.val = deps])

\* the reads of a chain of strings one after the other: val is the sequence
\* of the Options read
RECURSIVE StringsLoop(_, _, _)
StringsLoop(r, int_size, k) ==
    IF k = 0 \/ ~r.ok THEN r
    ELSE Bind(read_string_bypass(r.rd, r.wr, int_size), LAMBDA str :
            IF ~str.ok THEN str
            ELSE StringsLoop([str EXCEPT !.val = Append(r.val, str.val)], int_size, k - 1))

\* the body of the loop of parse_toc: one entry is read, val is the TocEntry
ParseEntry(rd, wr, h) ==
    Bind(read_int_bypass(rd, wr, h.int_size), LAMBDA dump_id :
    Bind(ReadIntAfter(dump_id, h.int_size), LAMBDA had_dumper :
    \* table_oid, oid, tag, desc
    Bind(StringsLoop([had_dumper EXCEPT !.val = <<>>], h.int_size, 4), LAMBDA names :
    Bind(ReadIntAfter(names, h.int_size), LAMBDA section_raw :
    \* defn, drop_stmt, copy_stmt, namespace, tablespace, then tableam from
    \* 1.14 on, then owner and with_oids
    Bind(is_version_at_least(h, 1, 14, 0), LAMBDA with_am :
    Bind(StringsLoop([section_raw EXCEPT !.val = <<>>], h.int_size,
                     IF with_am THEN 8 ELSE 7), LAMBDA texts :
    Bind(DependenciesLoop(texts, h.int_size, <<>>), LAMBDA dependencies :
    Bind(ReadByteAfter(dependencies), LAMBDA data_state_byte :
    Bind(ReadOffsetAfter(data_state_byte, h.offset_size), LAMBDA offset :
        IF ~dump_id.ok THEN dump_id
        ELSE IF ~had_dumper.ok THEN had_dumper
        ELSE IF ~names.ok THEN names
        ELSE IF ~section_raw.ok THEN section_raw
        ELSE IF ~texts.ok THEN texts
        ELSE IF ~dependencies.ok THEN dependencies
        ELSE IF ~data_state_byte.ok THEN data_state_byte
        ELSE IF ~offset.ok THEN offset
        ELSE [offset EXCEPT !.val =
                [dump_id |-> dump_id.val,
                 section |-> SectionFromI32(section_raw.val),
                 tag |-> UnwrapOrDefault(names.val[3]),
                 desc |-> UnwrapOrDefault(names.val[4]),
                 defn |-> UnwrapOrDefault(texts.val[1]),
                 drop_stmt |-> UnwrapOrDefault(texts.val[2]),
                 copy_stmt |-> UnwrapOrDefault(texts.val[3]),
                 namespace |-> UnwrapOrDefault(texts.val[4]),
                 tablespace |-> UnwrapOrDefault(texts.val[5]),
                 tableam |-> IF with_am THEN UnwrapOrDefault(texts.val[6]) ELSE <<>>,
                 owner |-> UnwrapOrDefault(texts.val[IF with_am THEN 7 ELSE 6]),
                 dependencies |-> dependencies.val,
                 offset |-> offset.val,
                 data_state |-> DataStateFromI32(data_state_byte.val)]])))))))))

\* `for _ in 0..toc_count`: k entries are left to read, val is the Vec so far
RECURSIVE EntriesLoop(_, _, _)
EntriesLoop(r, h, k) ==
    IF k <= 0 \/ ~r.ok THEN r
    ELSE Bind(ParseEntry(r.rd, r.wr, h), LAMBDA entry :
            IF ~entry.ok THEN entry
            ELSE EntriesLoop([entry EXCEPT !.val = Append(r.val, entry.val)], h, k - 1))

\* parse_toc: [ok, val, rd, wr], val the Vec<TocEntry>
parse_toc(reader, h) ==
    Bind(read_int_bypass(reader, <<>>, h.int_size), LAMBDA toc_count :
        IF ~toc_count.ok THEN toc_count
        ELSE EntriesLoop([toc_count EXCEPT !.val = <<>>], h, toc_count.val))

(***************************************************************************)
(* CustomHandler::process up to the first block: parse_header, then        *)
(* parse_toc.  `pos` counts the bytes taken from the input, those taken by *)
(* the sniffing of the format included.                                    *)
(***************************************************************************)

\* the bytes of an integer and of a string in a dump
IntBytes(val, int_size) == write_int(val, int_size)
StringBytes(text, int_size) == IntBytes(Len(text), int_size) \o text
NullString(int_size) == IntBytes(-1, int_size)

RECURSIVE Flatten(_)
Flatten(seqs) == IF seqs = <<>> THEN <<>> ELSE Head(seqs) \o Flatten(Tail(seqs))

\* the bytes of a header: version 1.vmin.0, the two sizes, the format byte,
\* the compression (a byte from 1.15 on, a level before), the timestamp and
\* the three strings
HeaderBytes(magic, vmin, sizes, format, compression, db_name) ==
    magic \o <<Byte(1), Byte(vmin), Byte(0), Byte(sizes), Byte(sizes), Byte(format)>>
        \o (IF vmin >= 15 THEN <<Byte(compression)>> ELSE IntBytes(compression, sizes))
        \o Flatten([i \in 1..7 |-> IntBytes(i, sizes)])
        \o db_name
        \o StringBytes(<<"1", "6">>, sizes) \o StringBytes(<<"1", "6">>, sizes)

\* the bytes of a TOC entry
EntryBytes(e, vmin, sizes) ==
    IntBytes(e.dump_id, sizes) \o IntBytes(0, sizes)
        \o StringBytes(<<"0">>, sizes) \o StringBytes(<<"9">>, sizes)
        \o StringBytes(e.tag, sizes) \o StringBytes(e.desc, sizes)
        \o IntBytes(e.section, sizes)
        \o (IF e.defn = <<>> THEN NullString(sizes) ELSE StringBytes(e.defn, sizes))
        \o NullString(sizes)
        \o (IF e.copy_stmt = <<>> THEN IntBytes(0, sizes) ELSE StringBytes(e.copy_stmt, sizes))
        \o StringBytes(<<"public">>, sizes)
        \o NullString(sizes)
        \o (IF vmin >= 14 THEN StringBytes(<<"heap">>, sizes) ELSE <<>>)
        \o StringBytes(<<"o">>, sizes) \o StringBytes(<<"false">>, sizes)
        \o Flatten([i \in 1..Len(e.deps) |-> StringBytes(e.deps[i], sizes)])
        \o NullString(sizes)
        \o <<Byte(e.data_state)>>
        \o [i \in 1..sizes |-> Byte(i)]

\* the entries of the model's dumps: a directive, the data of table t1 and
\* the data of table logs
CommentEntry ==
    [dump_id |-> 1, tag |-> <<"COLUMN t1.b">>, desc |-> <<"COMMENT">>, section |-> 1,
     defn |-> <<CommentColumn>>, copy_stmt |-> <<>>, deps |-> <<<<"2">>>>, data_state |-> 2]
DataEntry ==
    [dump_id |-> 2, tag |-> <<"t1">>, desc |-> <<"TABLE DATA">>, section |-> 2,
     defn |-> <<>>, copy_stmt |-> <<"COPY t1 (a, b) FROM stdin;">>,
     deps |-> <<<<"1">>, <<"x">>>>, data_state |-> 1]
LogsEntry ==
    [dump_id |-> 3, tag |-> <<"logs">>, desc |-> <<"TABLE DATA">>, section |-> 2,
     defn |-> <<>>, copy_stmt |-> <<"COPY logs (a) FROM stdin;">>,
     deps |-> <<>>, data_state |-> 1]

TocBytes(toc, vmin, sizes) ==
    IntBytes(Len(toc), sizes) \o Flatten([i \in 1..Len(toc) |-> EntryBytes(toc[i], vmin, sizes)])

\* what follows the TOC: nothing, the END tag, or a DATA block
AfterToc(sizes) ==
    { <<>>, <<Byte(4)>>,
      <<Byte(1)>> \o IntBytes(2, sizes) \o IntBytes(1, sizes) \o <<"1">> \o IntBytes(0, sizes) }

\* dumps that parse, for one int_size: [head, after], the header with the TOC
\* and what follows them
GoodDumpsOf(sizes) ==
    { [head |-> HeaderBytes(MAGIC_HEADER, vmin, sizes, 1, compression, db_name)
                    \o TocBytes(toc, vmin, sizes),
       after |-> after] :
        vmin \in {13, 14, 15}, compression \in {0, 1},
        db_name \in {StringBytes(<<"d", "b">>, sizes), NullString(sizes), IntBytes(0, sizes)},
        toc \in {<<>>, <<DataEntry>>, <<CommentEntry, DataEntry>>},
        after \in AfterToc(sizes) }

GoodDumps == GoodDumpsOf(1) \cup GoodDumpsOf(2)

\* dumps with a header that is refused
BadDumps ==
    { [head |-> head, after |-> <<Byte(4)>>] : head \in
        { HeaderBytes(<<"P", "G", "D", "M", "X">>, 14, 1, 1, 0, NullString(1)),
          HeaderBytes(MAGIC_HEADER, 11, 1, 1, 0, NullString(1)),
          HeaderBytes(MAGIC_HEADER, 17, 1, 1, 0, NullString(1)),
          HeaderBytes(MAGIC_HEADER, 14, 0, 1, 0, NullString(1)),
          HeaderBytes(MAGIC_HEADER, 14, 9, 1, 0, NullString(1)),
          HeaderBytes(MAGIC_HEADER, 14, 1, 2, 0, NullString(1)),
          HeaderBytes(MAGIC_HEADER, 14, 1, 1, 10, NullString(1)),
          HeaderBytes(MAGIC_HEADER, 15, 1, 1, 7, NullString(1)) } }

\* a dump, less the bytes cut off its end
CutDump(d, cut) == SubSeq(d.head \o d.after, 1, Len(d.head \o d.after) - cut)

HeaderInit ==
    /\ ProcInit
    /\ overflow_checks \in BOOLEAN
    /\ delete_patterns = <<>>
    /\ mutation_map = EmptyMap
    /\ secrets = {}
    /\ \E d \in GoodDumps \cup BadDumps, cut \in 0..MaxCut : input = CutDump(d, cut)
    \* the bytes main took to tell the format: five, or fewer on a short read
    /\ pos \in 0..5 /\ pos <= Len(input)
    /\ output = <<>>
    /\ is_data = FALSE /\ comment_buf = NoneValue /\ status = "run"
    /\ header = NoneValue /\ entries = <<>>
    /\ log = <<[kind |-> "sniffed", n |-> pos]>>

Reader == SubSeq(input, pos + 1, Len(input))

\* `let header = parse_header(&mut reader, &mut writer, initial_bytes)?`
HeaderParse ==
    /\ status = "run"
    /\ LET r == parse_header(Reader, SubSeq(input, 1, pos)) IN
        /\ output' = r.wr
        /\ pos' = Len(input) - Len(r.rd)
        /\ header' = IF r.ok THEN Some(r.val) ELSE NoneValue
        /\ status' = IF r.ok THEN "header" ELSE IF r.panic THEN "panicked" ELSE "failed"
    /\ UNCHANGED <<procVars, input, is_data, comment_buf, entries, log>>

\* `let entries = parse_toc(&mut reader, &mut writer, &header)?`
TocParse ==
    /\ status = "header"
    /\ LET r == parse_toc(Reader, header.v) IN
        /\ output' = output \o r.wr
        /\ pos' = Len(input) - Len(r.rd)
        /\ entries' = IF r.ok THEN r.val ELSE <<>>
        /\ status' = IF r.ok THEN "toc" ELSE IF r.panic THEN "panicked" ELSE "failed"
    /\ UNCHANGED <<procVars, input, is_data, comment_buf, header, log>>

HeaderNext == HeaderParse \/ TocParse

SpecHeader == HeaderInit /\ [][HeaderNext]_vars

(***************************************************************************)
(* SpecFields: parse_header on headers whose fields are drawn one by one,  *)
(* each from values inside and outside what the parser takes.  The header  *)
(* is followed by an empty TOC and the END tag.                            *)
(***************************************************************************)

\* the compression bytes of the headers from 1.15 on, and the levels of the
\* headers before
FieldAlgos == {0, 1, 2, 3, 4, 255}
FieldLevels == {-2, -1, 0, 1, 9, 10}

\* the fields of the headers
FieldSets ==
    { f \in [magic : {MAGIC_HEADER, <<"P", "G", "D", "M", "X">>},
             vmaj : {0, 1, 2}, vmin : {11, 12, 14, 15, 16, 17},
             int_size : {0, 1, 4, 8, 9}, offset_size : {0, 1, 8, 9},
             format : {1, 2}, comp : FieldAlgos \cup FieldLevels] :
        f.comp \in (IF VersionAtLeast(f.vmaj, f.vmin, 0, 1, 15, 0) THEN FieldAlgos
                    ELSE FieldLevels) }

\* the bytes of a header of these fields, an empty TOC and the END tag
FieldBytes(f) ==
    f.magic \o <<Byte(f.vmaj), Byte(f.vmin), Byte(0), Byte(f.int_size), Byte(f.offset_size),
                 Byte(f.format)>>
        \o (IF VersionAtLeast(f.vmaj, f.vmin, 0, 1, 15, 0) THEN <<Byte(f.comp)>>
            ELSE IntBytes(f.comp, f.int_size))
        \o Flatten([i \in 1..7 |-> IntBytes(i, f.int_size)])
        \o NullString(f.int_size)
        \o StringBytes(<<"1", "6">>, f.int_size) \o StringBytes(<<"1", "6">>, f.int_size)
        \o IntBytes(0, f.int_size) \o <<Byte(4)>>

FieldsInit ==
    /\ ProcInit
    /\ overflow_checks \in BOOLEAN
    /\ delete_patterns = <<>>
    /\ mutation_map = EmptyMap
    /\ secrets = {}
    /\ \E f \in FieldSets :
        /\ input = FieldBytes(f)
        /\ log = <<[kind |-> "fields", n |-> 5, f |-> f]>>
    /\ pos = 5
    /\ output = <<>>
    /\ is_data = FALSE /\ comment_buf = NoneValue /\ status = "run"
    /\ header = NoneValue /\ entries = <<>>

SpecFields == FieldsInit /\ [][HeaderNext]_vars

\* what the header rules refuse: a magic that is not PGDMP, a version below
\* 1.12 or above 1.16, a size outside 1..8, a format byte that is not 1
Refused(f) ==
    \/ f.magic # MAGIC_HEADER
    \/ ~VersionAtLeast(f.vmaj, f.vmin, 0, 1, 12, 0)
    \/ VersionAtLeast(f.vmaj, f.vmin, 0, 1, 17, 0)
    \/ f.int_size \notin 1..8 \/ f.offset_size \notin 1..8
    \/ f.format # 1

\* C14: parse_header returns an error, and no TOC entry and no block is
\* processed, whenever the magic is not PGDMP, the version is below 1.12 or
\* above 1.16, int_size or offset_size is outside 1..8 or the format byte is
\* not 1; every header inside those bounds is accepted.
C14_HeaderBounds ==
    status # "run" =>
        IF Refused(log[1].f) THEN status = "failed" /\ ~header.some /\ entries = <<>>
        ELSE header.some

\* the method the compression field of a header stands for, none when the
\* field is to be refused: the byte of a header from 1.15 on, the level of a
\* header before
MethodOf(f) ==
    IF VersionAtLeast(f.vmaj, f.vmin, 0, 1, 15, 0)
    THEN IF f.comp \in 0..3 THEN Some(<<"None", "Zlib", "Lz4", "Zstd">>[f.comp + 1])
         ELSE NoneValue
    ELSE IF f.comp = 0 THEN Some("None")
         ELSE IF f.comp \in {-1, 1, 2, 3, 4, 5, 6, 7, 8, 9} THEN Some("Zlib")
         ELSE NoneValue

\* C15: whenever parse_header returns on a header whose magic, version, sizes
\* and format it takes, the compression of the header it returns is, from
\* 1.15 on, None, Zlib, Lz4, Zstd for the bytes 0, 1, 2, 3 and an error for
\* any other byte, and before 1.15 None for the level 0, Zlib for the levels
\* -1 and 1..9 and an error for any other level.
C15_CompressionMethod ==
    (status \in {"header", "toc", "failed"} /\ ~Refused(log[1].f)) =>
        IF MethodOf(log[1].f).some
        THEN header.some /\ header.v.compression = MethodOf(log[1].f).v
        ELSE status = "failed" /\ ~header.some

\* a header of version 1.14 with the level -1 was parsed and taken as Zlib
C15_Witness ==
    /\ status = "toc" /\ log[1].kind = "fields"
    /\ log[1].f.vmin = 14 /\ log[1].f.comp = -1 /\ header.v.compression = "Zlib"

\* the inputs that parse, each with the number of its bytes before the blocks
BlocksBegin ==
    {[input |-> CutDump(d, cut), pos |-> Len(d.head)] : d \in GoodDumps, cut \in 0..MaxCut}

\* C7: once parse_header and parse_toc have both succeeded, the bytes written
\* are the bytes of the input from its first byte up to the byte the reader
\* stands at, the sniffed bytes included, and that byte is where the blocks
\* begin.
C7_HeaderRoundTrip ==
    status = "toc" =>
        /\ output = SubSeq(input, 1, pos)
        /\ [input |-> input, pos |-> pos] \in BlocksBegin

\* a dump of two entries was parsed after fewer than five bytes were sniffed,
\* and a DATA block follows
C7_Witness ==
    /\ status = "toc" /\ Len(entries) = 2
    /\ log[1].n \in 1..4
    /\ pos < Len(input) /\ input[pos + 1] = Byte(1)

-----------------------------------------------------------------------------
(***************************************************************************)
(* format/custom/blocks.rs: the chunk stream of a block.  A compressed     *)
(* stream is the atom of its method and level, the payload in runs (a      *)
(* count byte and the byte repeated), and the closing atom with the length *)
(* of the payload modulo 256 as its checksum.                              *)
(***************************************************************************)

OUTPUT_CHUNK_SIZE == 1048576
MAX_CHUNK_SIZE == 52428800

\* i32::unsigned_abs; |i32::MIN| is 2^31, which like 2^31 - 1 is above MAX_CHUNK_SIZE
UnsignedAbs(v) == IF v = MinI32 THEN 2147483647 ELSE IF v < 0 THEN -v ELSE v

\* `len > MAX_CHUNK_SIZE`
ChunkTooLarge(len) == len > MAX_CHUNK_SIZE

\* memchr(b'\n', data): the index of the first newline, 0 if none
FirstNewline(data) == Find(data, LF, 1)

\* memrchr(b'\n', data): the index of the last newline, 0 if none
LastNewline(data) ==
    LET nl == {i \in 1..Len(data) : data[i] = LF} IN
    IF nl = {} THEN 0 ELSE CHOOSE i \in nl : \A j \in nl : j <= i

\* the bytes read without the leftover of the bytes read before
Uncombined(line_tail, buf) == buf

\* `data`: the leftover of the bytes read before (line_tail) with the bytes
\* read now behind it
Combined(line_tail, buf) == line_tail \o buf

\* slice::chunks(size)
RECURSIVE Chunks(_, _)
Chunks(data, size) ==
    IF Len(data) = 0 THEN <<>>
    ELSE IF Len(data) <= size THEN <<data>>
    ELSE <<SubSeq(data, 1, size)>> \o Chunks(SubSeq(data, size + 1, Len(data)), size)

\* `for chunk in data.chunks(OUTPUT_CHUNK_SIZE)`: write_int(chunk.len() as i32)
\* and write_all(chunk)
WriteChunks(data, int_size) ==
    LET cs == Chunks(data, OUTPUT_CHUNK_SIZE) IN
    Flatten([i \in 1..Len(cs) |-> write_int(Len(cs[i]), int_size) \o cs[i]])

\* the length of the run of equal bytes at the head of data, 255 at most
RunLength(data) ==
    LET top == IF Len(data) < 255 THEN Len(data) ELSE 255 IN
    CHOOSE k \in 1..top :
        /\ \A i \in 1..k : data[i] = data[1]
        /\ k = top \/ data[k + 1] # data[1]

RECURSIVE Runs(_)
Runs(data) ==
    IF data = <<>> THEN <<>>
    ELSE LET k == RunLength(data) IN
         <<Byte(k), data[1]>> \o Runs(SubSeq(data, k + 1, Len(data)))

StreamEnd == "end"

\* what an encoder makes of a payload: ZlibEncoder at Compression::new(6),
\* ZstdEncoder at level 1
Compress(method_level, payload) ==
    <<method_level>> \o Runs(payload) \o <<StreamEnd, Byte(Len(payload) % 256)>>

\* the atoms a decoder of a method accepts at the head of a stream
StreamHeads(method) ==
    CASE method = "Zlib" -> {"zlib:6", "zlib:9"}
      [] method = "Zstd" -> {"zstd:1", "zstd:3"}
      [] OTHER -> {}

\* the runs of a stream from index i on: [end, ok, val, used], whether the end
\* of the stream was seen, whether the stream is sound so far, the payload
\* decoded so far and the bytes of the stream taken
RECURSIVE Unruns(_, _, _)
Unruns(stream, i, out) ==
    LET more == [end |-> FALSE, ok |-> TRUE, val |-> out, used |-> i - 1] IN
    IF i > Len(stream) THEN more
    ELSE IF stream[i] = StreamEnd
    THEN IF i + 1 > Len(stream) THEN more
         ELSE [end |-> TRUE, ok |-> stream[i + 1] = Byte(Len(out) % 256), val |-> out,
               used |-> i + 1]
    ELSE IF stream[i] \in DOMAIN ByteValues /\ ByteValue(stream[i]) > 0
    THEN IF i + 1 > Len(stream) THEN more
         ELSE Unruns(stream, i + 2,
                     out \o [j \in 1..ByteValue(stream[i]) |-> stream[i + 1]])
    ELSE [end |-> TRUE, ok |-> FALSE, val |-> out, used |-> i - 1]

\* a decoder fed with the bytes of stream
Decompress(stream, method) ==
    IF stream = <<>> THEN [end |-> FALSE, ok |-> TRUE, val |-> <<>>, used |-> 0]
    ELSE IF stream[1] \notin StreamHeads(method)
    THEN [end |-> TRUE, ok |-> FALSE, val |-> <<>>, used |-> 0]
    ELSE Unruns(stream, 2, <<>>)

\* BlockProcessor::pass_through_block: [ok, rd, wr]
RECURSIVE pass_through_block(_, _, _)
pass_through_block(rd, wr, int_size) ==
    Bind(read_int(rd, int_size), LAMBDA chunk_len :
    Bind(wr \o write_int(chunk_len.val, int_size), LAMBDA after_len :
    Bind(UnsignedAbs(chunk_len.val), LAMBDA len :
    Bind(ReadExact(chunk_len.rd, after_len, len, TRUE), LAMBDA buf :
        IF ~chunk_len.ok THEN [ok |-> FALSE, rd |-> chunk_len.rd, wr |-> wr]
        ELSE IF chunk_len.val = 0 THEN [ok |-> TRUE, rd |-> chunk_len.rd, wr |-> after_len]
        ELSE IF ChunkTooLarge(len)
        THEN [ok |-> FALSE, rd |-> chunk_len.rd, wr |-> after_len]
        ELSE IF ~buf.ok THEN [ok |-> FALSE, rd |-> buf.rd, wr |-> after_len]
        ELSE pass_through_block(buf.rd, buf.wr, int_size)))))

\* BlockProcessor::process_complete_lines on st = [out, ut, rt, rows]: the
\* buffer the rows go to, the trackers, and the calls of process_line made
RECURSIVE CompleteLinesLoop(_, _, _, _)
CompleteLinesLoop(data, start, tape, st) ==
    IF start > Len(data) THEN st
    ELSE Bind(Find(data, LF, start), LAMBDA found :
         Bind(IF found = 0 THEN Len(data) + 1 ELSE found, LAMBDA end :
         Bind(SubSeq(data, start, end - 1), LAMBDA line :
         Bind(ProcessLine(line, tape, st.ut, st.rt), LAMBDA res :
         Bind(IF end <= Len(data) THEN <<LF>> ELSE <<>>, LAMBDA newline :
            CompleteLinesLoop(data, end + 1, tape,
                [out |-> IF res.out.some THEN st.out \o res.out.v \o newline ELSE st.out,
                 ut |-> res.ut, rt |-> res.rt,
                 rows |-> Append(st.rows, [line |-> line, out |-> res.out,
                                           newline |-> newline])]))))))

process_complete_lines(data, tape, st) == CompleteLinesLoop(data, 1, tape, st)

process_complete_lines_to_writer(data, tape, st) == CompleteLinesLoop(data, 1, tape, st)

\* the last line of a payload, when it has no newline: process_line and the
\* extend_from_slice or write_all of its result
ProcessTail(line_tail, tape, st) ==
    IF line_tail = <<>> THEN st
    ELSE Bind(ProcessLine(line_tail, tape, st.ut, st.rt), LAMBDA res :
            [out |-> IF res.out.some THEN st.out \o res.out.v ELSE st.out,
             ut |-> res.ut, rt |-> res.rt,
             rows |-> Append(st.rows, [line |-> line_tail, out |-> res.out,
                                       newline |-> <<>>])])

\* BlockProcessor::flush_uncompressed: the bytes written
flush_uncompressed(output_buf, int_size) == WriteChunks(output_buf, int_size)

\* the loop of process_block_uncompressed on st = [ok, rd, wr, line_tail,
\* out, ut, rt, rows], out being output_buf
RECURSIVE UncompressedLoop(_, _, _)
UncompressedLoop(st, int_size, tape) ==
    Bind(read_int(st.rd, int_size), LAMBDA chunk_len :
    Bind(UnsignedAbs(chunk_len.val), LAMBDA len :
    Bind(ReadExact(chunk_len.rd, <<>>, len, FALSE), LAMBDA buf :
    Bind(Combined(st.line_tail, buf.val), LAMBDA data :
    Bind(LastNewline(data), LAMBDA last_nl :
    Bind(process_complete_lines(SubSeq(data, 1, last_nl), tape,
            [out |-> st.out, ut |-> st.ut, rt |-> st.rt, rows |-> st.rows]), LAMBDA lines :
    Bind(Len(lines.out) >= OUTPUT_CHUNK_SIZE, LAMBDA full :
        IF ~chunk_len.ok THEN [st EXCEPT !.ok = FALSE, !.rd = chunk_len.rd]
        ELSE IF chunk_len.val = 0 THEN [st EXCEPT !.rd = chunk_len.rd]
        ELSE IF ChunkTooLarge(len) THEN [st EXCEPT !.ok = FALSE, !.rd = chunk_len.rd]
        ELSE IF ~buf.ok THEN [st EXCEPT !.ok = FALSE, !.rd = buf.rd]
        ELSE IF last_nl = 0
        THEN UncompressedLoop([st EXCEPT !.rd = buf.rd, !.line_tail = data], int_size, tape)
        ELSE UncompressedLoop(
                [ok |-> TRUE, rd |-> buf.rd,
                 wr |-> IF full THEN st.wr \o flush_uncompressed(lines.out, int_size)
                        ELSE st.wr,
                 line_tail |-> SubSeq(data, last_nl + 1, Len(data)),
                 out |-> IF full THEN <<>> ELSE lines.out,
                 ut |-> lines.ut, rt |-> lines.rt, rows |-> lines.rows],
                int_size, tape))))))))

\* BlockProcessor::process_block_uncompressed: [ok, rd, wr, ut, rt, rows]
process_block_uncompressed(rd, int_size, tape, ut, rt) ==
    Bind(UncompressedLoop([ok |-> TRUE, rd |-> rd, wr |-> <<>>, line_tail |-> <<>>,
                           out |-> <<>>, ut |-> ut, rt |-> rt, rows |-> <<>>],
                          int_size, tape), LAMBDA st :
    Bind(ProcessTail(st.line_tail, tape,
                     [out |-> st.out, ut |-> st.ut, rt |-> st.rt, rows |-> st.rows]),
         LAMBDA last :
        IF ~st.ok
        THEN [ok |-> FALSE, rd |-> st.rd, wr |-> st.wr, ut |-> st.ut, rt |-> st.rt,
              rows |-> st.rows]
        ELSE [ok |-> TRUE, rd |-> st.rd,
              wr |-> st.wr
                        \o (IF last.out # <<>> THEN flush_uncompressed(last.out, int_size)
                            ELSE <<>>)
                        \o write_int(0, int_size),
              ut |-> last.ut, rt |-> last.rt, rows |-> last.rows]))

READ_BUF_SIZE == 2097152

\* a decoder reading through ChunkReader::read: chunks are taken from rd one
\* at a time until the stream has ended, [ok, val, rd] with val the payload
\* decoded.  Once the stream has ended with its chunk, the next read of the
\* decoder takes one more chunk length, and the chunk if there is one.  A
\* ZlibDecoder reads nothing past the end of its stream and takes a stream cut
\* short as ended; a ZstdDecoder fails on both.
RECURSIVE ChunkReaderLoop(_, _, _, _)
ChunkReaderLoop(rd, stream, int_size, method) ==
    Bind(Decompress(stream, method), LAMBDA d :
    Bind(read_int(rd, int_size), LAMBDA chunk_len :
    Bind(UnsignedAbs(chunk_len.val), LAMBDA len :
    Bind(ReadExact(chunk_len.rd, <<>>, len, FALSE), LAMBDA buf :
        IF d.end /\ ~d.ok THEN [ok |-> FALSE, val |-> d.val, rd |-> rd]
        ELSE IF d.end /\ d.used < Len(stream)
        THEN [ok |-> method = "Zlib", val |-> d.val, rd |-> rd]
        ELSE IF ~chunk_len.ok THEN [ok |-> FALSE, val |-> d.val, rd |-> chunk_len.rd]
        ELSE IF chunk_len.val = 0
        THEN [ok |-> d.end \/ method = "Zlib", val |-> d.val, rd |-> chunk_len.rd]
        ELSE IF ChunkTooLarge(len)
        THEN [ok |-> FALSE, val |-> d.val, rd |-> chunk_len.rd]
        ELSE IF ~buf.ok THEN [ok |-> FALSE, val |-> d.val, rd |-> buf.rd]
        ELSE IF d.end THEN [ok |-> method = "Zlib", val |-> d.val, rd |-> buf.rd]
        ELSE ChunkReaderLoop(buf.rd, stream \o buf.val, int_size, method)))))

\* BlockProcessor::flush_encoder_chunks and flush_zstd_encoder_chunks: the
\* bytes written for the inner Vec of the encoder
flush_encoder_chunks(inner, int_size) ==
    IF Len(inner) >= OUTPUT_CHUNK_SIZE THEN WriteChunks(inner, int_size) ELSE <<>>

\* the loop `let n = decoder.read(&mut read_buf)` over the fills of read_buf,
\* on st = [wr, line_tail, out, ut, rt, rows], out being what the encoder was
\* given.  An encoder hands nothing to its inner Vec before finish() for
\* payloads as short as the model's.
RECURSIVE DecoderReadLoop(_, _, _, _, _)
DecoderReadLoop(reads, i, st, int_size, tape) ==
    IF i > Len(reads) THEN st
    ELSE Bind(Combined(st.line_tail, reads[i]), LAMBDA data :
         Bind(LastNewline(data), LAMBDA last_nl :
         Bind(process_complete_lines_to_writer(SubSeq(data, 1, last_nl), tape,
                [out |-> st.out, ut |-> st.ut, rt |-> st.rt, rows |-> st.rows]),
              LAMBDA lines :
            IF last_nl = 0
            THEN DecoderReadLoop(reads, i + 1, [st EXCEPT !.line_tail = data], int_size, tape)
            ELSE DecoderReadLoop(reads, i + 1,
                    [wr |-> st.wr \o flush_encoder_chunks(<<>>, int_size),
                     line_tail |-> SubSeq(data, last_nl + 1, Len(data)),
                     out |-> lines.out, ut |-> lines.ut, rt |-> lines.rt,
                     rows |-> lines.rows],
                    int_size, tape))))

\* BlockProcessor::process_block_zlib and process_block_zstd, the decoder
\* filling read_buf with `fill` bytes at a time: [ok, rd, wr, ut, rt, rows]
ProcessBlockCompressed(rd, int_size, method, fill, tape, ut, rt) ==
    Bind(ChunkReaderLoop(rd, <<>>, int_size, method), LAMBDA dec :
    Bind(DecoderReadLoop(Chunks(dec.val, fill), 1,
                         [wr |-> <<>>, line_tail |-> <<>>, out |-> <<>>, ut |-> ut,
                          rt |-> rt, rows |-> <<>>], int_size, tape), LAMBDA st :
    Bind(ProcessTail(st.line_tail, tape,
                     [out |-> st.out, ut |-> st.ut, rt |-> st.rt, rows |-> st.rows]),
         LAMBDA last :
    Bind(Compress(IF method = "Zlib" THEN "zlib:6" ELSE "zstd:1", last.out),
         LAMBDA remaining :
        IF ~dec.ok
        THEN [ok |-> FALSE, rd |-> dec.rd, wr |-> st.wr, ut |-> st.ut, rt |-> st.rt,
              rows |-> st.rows]
        ELSE [ok |-> TRUE, rd |-> dec.rd,
              wr |-> st.wr \o WriteChunks(remaining, int_size) \o write_int(0, int_size),
              ut |-> last.ut, rt |-> last.rt, rows |-> last.rows]))))

process_block_zlib(rd, int_size, fill, tape, ut, rt) ==
    ProcessBlockCompressed(rd, int_size, "Zlib", fill, tape, ut, rt)

process_block_zstd(rd, int_size, fill, tape, ut, rt) ==
    ProcessBlockCompressed(rd, int_size, "Zstd", fill, tape, ut, rt)

\* BlockProcessor::process_block
process_block(rd, h, fill, tape, ut, rt) ==
    CASE h.compression = "Zlib" -> process_block_zlib(rd, h.int_size, fill, tape, ut, rt)
      [] h.compression = "Zstd" -> process_block_zstd(rd, h.int_size, fill, tape, ut, rt)
      [] OTHER -> process_block_uncompressed(rd, h.int_size, tape, ut, rt)

(***************************************************************************)
(* format/custom/mod.rs                                                    *)
(***************************************************************************)

\* an extract_comments that stops at the first data entry of the TOC
RECURSIVE ExtractLeading(_, _, _)
ExtractLeading(es, i, maps) ==
    IF i > Len(es) \/ es[i].desc = <<"TABLE DATA">> THEN maps
    ELSE Bind(ParseCommentIn(es[i].defn, maps.mm, maps.tm), LAMBDA r :
            ExtractLeading(es, i + 1,
                           IF es[i].desc = <<"COMMENT">> THEN [mm |-> r.mm, tm |-> r.tm]
                           ELSE maps))

\* CustomHandler::extract_comments on maps = [mm, tm]
RECURSIVE ExtractCommentsLoop(_, _, _)
ExtractCommentsLoop(es, i, maps) ==
    IF i > Len(es) THEN maps
    ELSE Bind(ParseCommentIn(es[i].defn, maps.mm, maps.tm), LAMBDA r :
            ExtractCommentsLoop(es, i + 1,
                                IF es[i].desc = <<"COMMENT">> THEN [mm |-> r.mm, tm |-> r.tm]
                                ELSE maps))

\* CustomHandler::build_data_map: dump_id -> copy_stmt, a later entry replacing
\* an earlier one of the same dump_id
build_data_map(es) ==
    LET data == {i \in 1..Len(es) : es[i].section = "Data" \/ es[i].desc = <<"TABLE DATA">>}
        last(d) == CHOOSE i \in data :
                        es[i].dump_id = d /\ \A j \in data : es[j].dump_id = d => j <= i
    IN [d \in {es[i].dump_id : i \in data} |-> es[last(d)].copy_stmt]

(***************************************************************************)
(* SpecBlock: CustomHandler::process on a whole dump, the header and the   *)
(* TOC first, then the loop over the blocks.  A DATA block of a table of   *)
(* the TOC is taken in three steps: the tag, the dump_id and setup_table;  *)
(* the chunk stream; reset_table.                                          *)
(***************************************************************************)

\* the entries of the dumps with blocks: table t1 has a column directive that
\* stands after its data entry, table logs is delete-marked by a table
\* directive, table t2 has no directive
BlockCommentEntry == [CommentEntry EXCEPT !.dump_id = 6, !.deps = <<>>]
TableCommentEntry ==
    [dump_id |-> 7, tag |-> <<"TABLE logs">>, desc |-> <<"COMMENT">>, section |-> 1,
     defn |-> <<CommentTable>>, copy_stmt |-> <<>>, deps |-> <<>>, data_state |-> 2]
T2Entry ==
    [dump_id |-> 4, tag |-> <<"t2">>, desc |-> <<"TABLE DATA">>, section |-> 2,
     defn |-> <<>>, copy_stmt |-> <<"COPY t2 (b, a) FROM stdin;">>,
     deps |-> <<>>, data_state |-> 1]
BlockToc == <<DataEntry, BlockCommentEntry, LogsEntry, T2Entry, TableCommentEntry>>

\* a field of WideLen bytes, and a payload of two rows that hold it
Wide == [i \in 1..WideLen |-> "p"]
WideRows == Wide \o <<TAB, "b", LF>> \o Wide \o <<TAB, "b", LF>>

\* a payload of two rows of 128 bytes
EvenRows == Tail(Wide) \o <<TAB, "b", LF>> \o Tail(Wide) \o <<TAB, "b", LF>>

ShortRows == <<"1", TAB, "x", LF, "2", TAB, "7", LF, EndOfData, LF>>
\* the payloads of the blocks of the dumps of compression byte c; the wide
\* rows stand in the dumps that are not compressed
BlockPayloads(c) ==
    { <<>>, ShortRows, <<"1", TAB, "x">>, <<"1", TAB, BAD, LF, LF, "2", TAB, "7">> }
        \cup (IF c = 0 THEN {WideRows, EvenRows} ELSE {})

\* the bytes a dump of compression byte c carries for a payload
BodyBytes(c, payload) ==
    CASE c = 0 -> payload
      [] c = 1 -> Compress("zlib:9", payload)
      [] c = 2 -> Compress("lz4:1", payload)
      [] c = 3 -> Compress("zstd:3", payload)

\* a body cut into chunks after its k-th byte
CutChunks(body, k) ==
    IF body = <<>> THEN <<>>
    ELSE IF k = 0 \/ k >= Len(body) THEN <<body>>
    ELSE <<SubSeq(body, 1, k), SubSeq(body, k + 1, Len(body))>>

\* the greatest length an integer of the dump can tell
MaxLength(sizes) == CASE sizes = 1 -> 255 [] sizes = 2 -> 65535 [] OTHER -> 2147483647

\* the bytes of a block: tag, dump_id, the chunks (their lengths negated when
\* sign = -1), the terminator
BlockBytes(tag, dump_id, chunks, sign, sizes) ==
    <<Byte(tag)>> \o IntBytes(dump_id, sizes)
        \o Flatten([i \in 1..Len(chunks) |->
                        IntBytes(sign * Len(chunks[i]), sizes) \o chunks[i]])
        \o IntBytes(0, sizes)

\* an integer of the dump with a sign byte of its own
RawInt(sign, magnitude, sizes) == <<Byte(sign)>> \o Tail(IntBytes(magnitude, sizes))

\* blocks whose integers pg_dump does not write: a length with the sign byte
\* 255 (t2), a terminator with the sign byte 1 (a dump_id the TOC does not
\* have, and a block of another tag), a dump_id with the sign byte 255 (a
\* block of another tag), and, where the integers have four bytes, lengths of
\* one byte more than MAX_CHUNK_SIZE, positive (t1, t2) and negative (t1)
OddBlocks(sizes) ==
    { <<Byte(1)>> \o IntBytes(4, sizes) \o RawInt(255, 2, sizes) \o <<"a", "b">>
          \o IntBytes(0, sizes),
      <<Byte(1)>> \o IntBytes(9, sizes) \o IntBytes(2, sizes) \o <<"a", "b">>
          \o RawInt(1, 0, sizes),
      <<Byte(3)>> \o IntBytes(5, sizes) \o IntBytes(2, sizes) \o <<"a", "b">>
          \o RawInt(1, 0, sizes),
      <<Byte(3)>> \o RawInt(255, 5, sizes) \o IntBytes(2, sizes) \o <<"a", "b">>
          \o IntBytes(0, sizes) }
    \cup (IF sizes < 4 THEN {}
          ELSE { <<Byte(1)>> \o IntBytes(x[1], sizes)
                     \o IntBytes(x[2] * (MAX_CHUNK_SIZE + 1), sizes)
                     \o <<"a", "b">> \o IntBytes(0, sizes) :
                 x \in {<<2, 1>>, <<2, -1>>, <<4, 1>>} })

\* a body cut into three chunks, behind its first and its second byte
ThreeChunks(body) ==
    <<SubSeq(body, 1, 1), SubSeq(body, 2, 2), SubSeq(body, 3, Len(body))>>

\* the blocks of the dumps of one int_size and one compression byte: blocks of
\* t1 in one chunk, two or three, one with negative chunk lengths, one whose stream
\* is followed by a further chunk, one that is no stream of the method, one
\* without its terminator, and blocks of logs, of t2, of a dump_id the TOC
\* does not have and of another tag
BlocksOf(sizes, c) ==
    LET whole(p) == <<BodyBytes(c, p)>> IN
    UNION { { BlockBytes(1, 2, CutChunks(BodyBytes(c, p), k), 1, sizes) :
                k \in {k \in {0, 2, Len(BodyBytes(c, p)) \div 2} :
                        \A i \in 1..Len(CutChunks(BodyBytes(c, p), k)) :
                            Len(CutChunks(BodyBytes(c, p), k)[i]) <= MaxLength(sizes)} } :
            p \in BlockPayloads(c) }
    \cup
    { BlockBytes(1, 2, whole(ShortRows), -1, sizes),
      BlockBytes(1, 2, ThreeChunks(BodyBytes(c, <<"1", TAB, "x", LF>>)), 1, sizes),
      BlockBytes(1, 2, whole(ShortRows) \o <<<<"more">>>>, 1, sizes),
      BlockBytes(1, 2, <<<<"junk", LF>>>>, 1, sizes),
      <<Byte(1)>> \o IntBytes(2, sizes) \o IntBytes(4, sizes) \o <<"1", TAB>>,
      BlockBytes(1, 3, whole(ShortRows), 1, sizes),
      BlockBytes(1, 4, whole(ShortRows), 1, sizes),
      BlockBytes(1, 9, whole(ShortRows), 1, sizes),
      BlockBytes(3, 5, <<<<"b", "l", "o", "b">>>>, 1, sizes) }
    \cup OddBlocks(sizes)

\* the blocks that stand before the last block of a dump: sound blocks of one
\* chunk, of t1, logs, t2, a dump_id the TOC does not have and another tag
LeadBlocksOf(sizes, c) ==
    { BlockBytes(1, 2, <<BodyBytes(c, ShortRows)>>, 1, sizes),
      BlockBytes(1, 3, <<BodyBytes(c, ShortRows)>>, 1, sizes),
      BlockBytes(1, 4, <<BodyBytes(c, ShortRows)>>, 1, sizes),
      BlockBytes(1, 9, <<BodyBytes(c, ShortRows)>>, 1, sizes),
      BlockBytes(3, 5, <<<<"b", "l", "o", "b">>>>, 1, sizes) }

\* n lead blocks at most, one after the other
RECURSIVE LeadSeqs(_, _)
LeadSeqs(leads, n) ==
    IF n = 0 THEN {<<>>}
    ELSE LeadSeqs(leads, n - 1) \cup {s \o b : s \in LeadSeqs(leads, n - 1), b \in leads}

\* the dumps: a header of version 1.15, the TOC, MaxBlocks blocks at most and
\* the END tag or the end of the input; a dump without blocks may have the
\* head of a block behind its END tag
BlockDumps ==
    UNION { { HeaderBytes(MAGIC_HEADER, 15, sizes, 1, c, NullString(sizes))
                \o TocBytes(BlockToc, 15, sizes) \o s \o end :
              s \in {<<>>} \cup {l \o b : l \in LeadSeqs(LeadBlocksOf(sizes, c), MaxBlocks - 1),
                                         b \in BlocksOf(sizes, c)},
              end \in {<<>>, <<Byte(4)>>} }
            \cup { HeaderBytes(MAGIC_HEADER, 15, sizes, 1, c, NullString(sizes))
                      \o TocBytes(BlockToc, 15, sizes)
                      \o <<Byte(4), Byte(3)>> \o IntBytes(5, sizes) } :
            sizes \in {1, 4}, c \in 0..3 }

\* dumps whose integers have eight bytes, without compression and with zlib:
\* a block of t1 (directives) or of t2 (none) whose one chunk has the length
\* 2 + 2 * 2^32, two bytes behind it, and the terminator
WideIntDumps ==
    { HeaderBytes(MAGIC_HEADER, 15, 8, 1, c, NullString(8)) \o TocBytes(BlockToc, 15, 8)
          \o <<Byte(1)>> \o IntBytes(dump_id, 8)
          \o <<Byte(0), Byte(2), Byte(0), Byte(0), Byte(0), Byte(2), Byte(0), Byte(0), Byte(0)>>
          \o <<"a", "b">> \o IntBytes(0, 8) \o <<Byte(4)>> :
      c \in {0, 1}, dump_id \in {2, 4} }

Fills == 1..MaxFill \cup {READ_BUF_SIZE}

BlockInit ==
    /\ ProcInit
    \* the integers of BlockDumps are of one or four bytes and none has the
    \* magnitude 2^31: no read overflows, the build makes no difference; the
    \* reads of eight bytes overflow, and panic in one build and wrap in the other
    /\ \/ input \in BlockDumps /\ overflow_checks = FALSE
       \/ input \in WideIntDumps /\ overflow_checks \in BOOLEAN
    /\ delete_patterns = <<>>
    /\ mutation_map = EmptyMap
    /\ secrets = {}
    /\ pos = 5
    /\ output = <<>>
    /\ is_data = FALSE /\ comment_buf = NoneValue /\ status = "run"
    /\ header = NoneValue /\ entries = <<>>
    /\ log = <<[kind |-> "sniffed", n |-> pos]>>

\* `self.extract_comments(&entries)`, build_data_map and DumpIO::new
ExtractComments ==
    /\ status = "toc"
    /\ \E maps \in {ExtractCommentsLoop(entries, 1,
                                         [mm |-> mutation_map, tm |-> table_mutations])} :
          /\ mutation_map' = maps.mm
          /\ table_mutations' = maps.tm
    /\ status' = "blocks"
    /\ UNCHANGED <<delete_patterns, secrets, overflow_checks, current_table, current_columns, column_indices,
                   current_mutations, is_delete_table, sorted_columns, unique_tracker,
                   relation_tracker>>
    /\ UNCHANGED <<input, pos, output, is_data, comment_buf, header, entries, log>>

data_entries == build_data_map(entries)

\* read_exact(&mut block_type) meets the end of the input
BlockEof ==
    /\ status = "blocks" /\ pos = Len(input)
    /\ status' = "done"
    /\ UNCHANGED <<procVars, input, pos, output, is_data, comment_buf, header, entries, log>>

\* block type 0x04
BlockEnd ==
    /\ status = "blocks" /\ pos < Len(input) /\ input[pos + 1] = Byte(4)
    /\ output' = output \o <<Byte(4)>>
    /\ pos' = pos + 1
    /\ status' = "done"
    /\ UNCHANGED <<procVars, input, is_data, comment_buf, header, entries, log>>

\* the reader behind the block type
AfterTag == SubSeq(input, pos + 2, Len(input))

\* block type 0x01 with the dump_id of a data entry: setup_table, the tag and
\* the dump_id are written
BlockDataEntry ==
    /\ status = "blocks" /\ pos < Len(input) /\ input[pos + 1] = Byte(1)
    /\ \E dump_id \in {read_int(AfterTag, header.v.int_size)} :
        /\ dump_id.ok /\ dump_id.val \in DOMAIN data_entries
        /\ LET copy_stmt == data_entries[dump_id.val] IN
            IF copy_stmt # <<>> /\ CopyCaptures(copy_stmt).some
            THEN SetupTableFields(CopyCaptures(copy_stmt).v)
            ELSE UNCHANGED procVars
        /\ output' = output \o <<Byte(1)>> \o write_int(dump_id.val, header.v.int_size)
        /\ pos' = Len(input) - Len(dump_id.rd)
        /\ status' = "table"
        /\ log' = Append(log, [kind |-> "data", dump_id |-> dump_id.val])
    /\ UNCHANGED <<input, is_data, comment_buf, header, entries>>

\* the block of the table on the mutating path
BlockMutate ==
    /\ status = "table" /\ (has_mutations \/ is_delete)
    /\ \E fill \in Fills, tape \in Tapes :
        \E r \in {process_block(Reader, header.v, fill, tape, unique_tracker,
                                relation_tracker)} :
        /\ output' = output \o r.wr
        /\ pos' = Len(input) - Len(r.rd)
        /\ unique_tracker' = r.ut
        /\ relation_tracker' = r.rt
        /\ status' = IF r.ok THEN "reset" ELSE "failed"
        /\ log' = Append(log, [kind |-> "block", path |-> "mutate", ok |-> r.ok,
                               table |-> current_table, deleted |-> is_delete,
                               int_size |-> header.v.int_size,
                               compression |-> header.v.compression,
                               stream |-> Reader,
                               read |-> SubSeq(Reader, 1, Len(Reader) - Len(r.rd)),
                               wrote |-> r.wr, rows |-> r.rows])
    /\ UNCHANGED <<mutation_map, table_mutations, delete_patterns, secrets, overflow_checks, current_table,
                   current_columns, column_indices, current_mutations, is_delete_table,
                   sorted_columns>>
    /\ UNCHANGED <<input, is_data, comment_buf, header, entries>>

\* the block of a table with nothing to mutate
BlockPass ==
    /\ status = "table" /\ ~(has_mutations \/ is_delete)
    /\ \E r \in {pass_through_block(Reader, <<>>, header.v.int_size)} :
        /\ output' = output \o r.wr
        /\ pos' = Len(input) - Len(r.rd)
        /\ status' = IF r.ok THEN "reset" ELSE "failed"
        /\ log' = Append(log, [kind |-> "block", path |-> "pass", ok |-> r.ok,
                               table |-> current_table, deleted |-> FALSE,
                               int_size |-> header.v.int_size,
                               compression |-> header.v.compression,
                               stream |-> Reader,
                               read |-> SubSeq(Reader, 1, Len(Reader) - Len(r.rd)),
                               wrote |-> r.wr, rows |-> <<>>])
    /\ UNCHANGED <<procVars, input, is_data, comment_buf, header, entries>>

\* `self.processor.reset_table()`
BlockReset ==
    /\ status = "reset"
    /\ ResetTableFields
    /\ status' = "blocks"
    /\ UNCHANGED <<input, pos, output, is_data, comment_buf, header, entries, log>>

\* what the driver does behind a block type that is not 0x04, when the block
\* is not one of a data entry: for 0x01 the dump_id is read before the tag is
\* written, for another tag after, and the chunks are passed through
BlockOther ==
    /\ status = "blocks" /\ pos < Len(input) /\ input[pos + 1] # Byte(4)
    /\ \E tag \in {input[pos + 1]}, dump_id \in {read_int(AfterTag, header.v.int_size)} :
        /\ tag = Byte(1) /\ dump_id.ok => dump_id.val \notin DOMAIN data_entries
        /\ IF ~dump_id.ok
           THEN /\ output' = IF tag = Byte(1) THEN output ELSE output \o <<tag>>
                /\ pos' = Len(input) - Len(dump_id.rd)
                /\ status' = "failed"
                /\ log' = Append(log, [kind |-> "cut"])
           ELSE \E r \in {pass_through_block(dump_id.rd, <<>>, header.v.int_size)} :
                /\ output' = output \o <<tag>>
                                \o write_int(dump_id.val, header.v.int_size) \o r.wr
                /\ pos' = Len(input) - Len(r.rd)
                /\ status' = IF r.ok THEN "blocks" ELSE "failed"
                /\ log' = Append(log, [kind |-> "block", path |-> "other", ok |-> r.ok,
                                       table |-> "", deleted |-> FALSE,
                                       int_size |-> header.v.int_size,
                                       compression |-> header.v.compression,
                                       stream |-> dump_id.rd,
                                       read |-> SubSeq(dump_id.rd, 1,
                                                       Len(dump_id.rd) - Len(r.rd)),
                                       wrote |-> r.wr, rows |-> <<>>])
    /\ UNCHANGED <<procVars, input, is_data, comment_buf, header, entries>>

BlockNext ==
    \/ HeaderParse \/ TocParse \/ ExtractComments
    \/ BlockEof \/ BlockEnd \/ BlockDataEntry \/ BlockMutate \/ BlockPass \/ BlockReset
    \/ BlockOther

SpecBlock == BlockInit /\ [][BlockNext]_vars

\* the chunks of a chunk stream: [ok, bodies], ok when every length is not
\* zero and has its bytes behind it, one zero length ends the stream and
\* nothing follows it
RECURSIVE Framed(_, _, _)
Framed(bytes, int_size, bodies) ==
    Bind(read_int(bytes, int_size), LAMBDA len :
    Bind(ReadExact(len.rd, <<>>, UnsignedAbs(len.val), FALSE), LAMBDA body :
        IF ~len.ok THEN [ok |-> FALSE, bodies |-> bodies]
        ELSE IF len.val = 0 THEN [ok |-> len.rd = <<>>, bodies |-> bodies]
        ELSE IF ~body.ok THEN [ok |-> FALSE, bodies |-> bodies]
        ELSE Framed(body.rd, int_size, bodies \o body.val)))

\* the rows process_line returned, each with the newline written behind it
MutatedRows(rows) ==
    Flatten([i \in 1..Len(rows) |->
                IF rows[i].out.some THEN rows[i].out.v \o rows[i].newline ELSE <<>>])

\* the payload the chunks of a block carry
Carried(bodies, compression) ==
    IF compression \in {"Zlib", "Zstd"}
    THEN Bind(Decompress(bodies, compression), LAMBDA d :
            [ok |-> d.end /\ d.ok /\ d.used = Len(bodies), val |-> d.val])
    ELSE [ok |-> TRUE, val |-> bodies]

MutatedBlocks ==
    {i \in 1..Len(log) : /\ log[i].kind = "block" /\ log[i].path = "mutate" /\ log[i].ok
                         /\ log[i].compression \in {"None", "Zlib", "Zstd"}}

\* C6: every block the mutating path emits (uncompressed, zlib or zstd) is a
\* sequence of chunks, each a length that is not zero followed by that many
\* bytes, ended by one zero length, and the chunks carry, decompressed where
\* the block is compressed, the mutated rows one after the other
C6_BlockFraming ==
    \A i \in MutatedBlocks :
        \E f \in {Framed(log[i].wrote, log[i].int_size, <<>>)} :
            \E carried \in {Carried(f.bodies, log[i].compression)} :
                f.ok /\ carried.ok /\ carried.val = MutatedRows(log[i].rows)

\* C13: when the header declares Lz4, a data block that must be mutated (its
\* table has directives or is delete-marked) is fatal: process_block returns
\* an error and no row of the block is passed to process_line
C13_Lz4Fatal ==
    \A i \in 1..Len(log) :
        (/\ log[i].kind = "block" /\ log[i].path = "mutate"
         /\ log[i].compression = "Lz4") => (~log[i].ok /\ log[i].rows = <<>>)

PassedBlocks ==
    {i \in 1..Len(log) : log[i].kind = "block" /\ log[i].path \in {"pass", "other"}}

\* C17: the block of a table without directives that is not delete-marked,
\* and the block whose dump_id is not of a data entry, leave as the bytes
\* they came as: every length with its sign byte, every body and the
\* terminator, in their order
C17_PassThroughIdentical ==
    \A i \in PassedBlocks : log[i].ok => log[i].wrote = log[i].read

\* the little-endian magnitude is more than MAX_CHUNK_SIZE
TooLong(magnitude) ==
    \/ \E j \in 5..Len(magnitude) : ByteValue(magnitude[j]) # 0
    \/ Len(magnitude) >= 4 /\ ByteValue(magnitude[4]) >= 128
    \/ LowBytes(magnitude) > MAX_CHUNK_SIZE

\* the first chunk length of a chunk stream that tells more than
\* MAX_CHUNK_SIZE bytes: [some, n], n the bytes of the stream up to the end
\* of that length
RECURSIVE Oversized(_, _, _)
Oversized(bytes, int_size, n) ==
    Bind(ReadExact(bytes, <<>>, 1 + int_size, FALSE), LAMBDA len :
    Bind(IF len.ok /\ ~TooLong(Tail(len.val)) THEN LowBytes(Tail(len.val)) ELSE 0, LAMBDA m :
    Bind(ReadExact(len.rd, <<>>, m, FALSE), LAMBDA body :
        IF ~len.ok THEN [some |-> FALSE, n |-> n]
        ELSE IF TooLong(Tail(len.val)) THEN [some |-> TRUE, n |-> n + 1 + int_size]
        ELSE IF m = 0 \/ ~body.ok THEN [some |-> FALSE, n |-> n]
        ELSE Oversized(body.rd, int_size, n + 1 + int_size + m))))

OversizedBlocks ==
    {i \in 1..Len(log) : /\ log[i].kind = "block"
                         /\ Oversized(log[i].stream, log[i].int_size, 0).some}

\* C18: on every path (passed through, mutated without compression, mutated
\* with compression) the block with a chunk length of more than 50 MiB, of
\* either sign, fails the run, and the reader is left behind that length: no
\* byte of the body of the chunk is read
C18_ChunkTooLarge ==
    \A i \in OversizedBlocks :
        /\ ~log[i].ok /\ status = "failed"
        /\ Len(log[i].read) = Oversized(log[i].stream, log[i].int_size, 0).n

\* the rows of a payload: the pieces between its newlines, a last piece
\* without a newline being a row as well
RowsOfPayload(payload) ==
    IF payload = <<>> THEN <<>>
    ELSE IF payload[Len(payload)] = LF THEN Split(SubSeq(payload, 1, Len(payload) - 1), LF)
    ELSE Split(payload, LF)

\* the payload a block came with: [ok, val], ok when the chunks read are a
\* sound chunk stream and, for a compressed block, one whole stream
PayloadRead(i) ==
    Bind(Framed(log[i].read, log[i].int_size, <<>>), LAMBDA f :
    Bind(Carried(f.bodies, log[i].compression), LAMBDA carried :
        [ok |-> f.ok /\ carried.ok, val |-> carried.val]))

RowBlocks == {i \in MutatedBlocks : ~log[i].deleted /\ PayloadRead(i).ok}

\* C19: in the mutated block of a table that is not deleted, process_line is
\* given the rows of the payload one by one in their order, each result is
\* emitted, every row but a last one without newline is followed by one
\* newline, and the payload emitted ends with a newline exactly when the
\* payload read does
C19_RowOrder ==
    \A i \in RowBlocks :
        \E payload \in {PayloadRead(i).val} :
        \E rows \in {RowsOfPayload(payload)} :
            /\ Len(log[i].rows) = Len(rows)
            /\ \A k \in 1..Len(rows) :
                /\ log[i].rows[k].line = rows[k]
                /\ log[i].rows[k].out.some
                /\ log[i].rows[k].newline =
                      IF k < Len(rows) \/ payload[Len(payload)] = LF THEN <<LF>> ELSE <<>>
            /\ EndsWith(MutatedRows(log[i].rows), <<LF>>) <=> EndsWith(payload, <<LF>>)

\* a compressed block of three rows, the second empty, the last without a
\* newline and mutated
C19_Witness ==
    \E i \in RowBlocks :
        /\ log[i].compression = "Zlib" /\ Len(log[i].rows) = 3
        /\ log[i].rows[2].line = <<>> /\ log[i].rows[3].newline = <<>>
        /\ log[i].rows[3].out.v # log[i].rows[3].line

(***************************************************************************)
(* SpecSniff: main.rs, run: the first bytes are peeked with one read, and  *)
(* the format is the one forced by --format or the one detect_format       *)
(* finds.                                                                  *)
(***************************************************************************)

\* format::detect_format
detect_format(peeked) ==
    IF Len(peeked) >= 5 /\ SubSeq(peeked, 1, 5) = MAGIC_HEADER THEN "Custom"
    ELSE IF peeked # <<>> /\ StartsWith(peeked, <<"P", "G", "D", "M">>) THEN "Custom"
    ELSE "Plain"

\* `match fmt.as_str()` on --format, NoneValue when the flag is absent
FormatOf(forced, peeked) ==
    IF forced.some /\ forced.v \in {"plain", "p"} THEN "Plain"
    ELSE IF forced.some /\ forced.v \in {"custom", "c"} THEN "Custom"
    ELSE detect_format(peeked)

\* the beginnings of the inputs: the magic followed by a version byte, the
\* same with one byte of the magic replaced, and a line of SQL
SniffWords ==
    { [i \in 1..6 |-> IF i = k THEN "X" ELSE (MAGIC_HEADER \o <<Byte(1)>>)[i]] : k \in 0..5 }
        \cup { <<"-", "-", " ", "P", "G", "D", "M", "P">> }

SniffInputs == UNION { { SubSeq(w, 1, n) : n \in 0..Len(w) } : w \in SniffWords }

\* the values of --format
Forced == {NoneValue, Some("plain"), Some("c"), Some("tar")}

SniffInit ==
    /\ ProcInit
    /\ overflow_checks = FALSE
    /\ delete_patterns = <<>>
    /\ mutation_map = EmptyMap
    /\ secrets = {}
    /\ input \in SniffInputs
    /\ pos = 0 /\ output = <<>>
    /\ is_data = FALSE /\ comment_buf = NoneValue /\ status = "start"
    /\ header = NoneValue /\ entries = <<>>
    /\ log = <<>>

\* `let peek_n = reader.read(&mut peek_buf)?` and the choice of the format: a
\* read gives at least one byte of an input that has one, and five at most
Sniff ==
    /\ status = "start"
    /\ \E peek_n \in 0..5, forced \in Forced :
        /\ peek_n <= Len(input)
        /\ peek_n = 0 => input = <<>>
        /\ pos' = peek_n
        /\ status' = FormatOf(forced, SubSeq(input, 1, peek_n))
        /\ log' = <<[kind |-> "sniffed", n |-> peek_n, forced |-> forced,
                     peeked |-> SubSeq(input, 1, peek_n),
                     detected |-> detect_format(SubSeq(input, 1, peek_n))]>>
    /\ UNCHANGED <<procVars, input, output, is_data, comment_buf, header, entries>>

SniffNext == Sniff

SpecSniff == SniffInit /\ [][SniffNext]_vars

\* C16: detect_format gives Custom exactly when the first five bytes it is
\* given are PGDMP, and Plain for anything else, bytes that begin with PGDM
\* and go on with another byte and fewer than five bytes included
C16_FormatSniffing ==
    \A i \in 1..Len(log) :
        log[i].detected = IF /\ Len(log[i].peeked) >= 5
                             /\ SubSeq(log[i].peeked, 1, 5) = MAGIC_HEADER
                          THEN "Custom" ELSE "Plain"

(***************************************************************************)
(* SpecInts: DumpIO::read_int or read_int_bypass on one encoded integer,   *)
(* then DumpIO::write_int on the value read.                               *)
(***************************************************************************)

\* the greatest number of magnitude bytes that are not zero
MaxSetBytes == 2

\* the values of the magnitude bytes and of the sign byte
MagnitudeBytes == {0, 1, 128}
SignBytes == {0, 1, 255}

\* the encoded integers of one int_size
EncodedInts(int_size) ==
    { <<Byte(sign)>> \o [j \in 1..int_size |-> Byte(m[j])] :
        sign \in SignBytes,
        m \in {m \in [1..int_size -> MagnitudeBytes] :
                 Cardinality({j \in 1..int_size : m[j] # 0}) <= MaxSetBytes} }

IntsInit ==
    /\ ProcInit
    /\ overflow_checks \in BOOLEAN
    /\ delete_patterns = <<>>
    /\ mutation_map = EmptyMap
    /\ secrets = {}
    /\ \E int_size \in 1..8 :
          /\ input \in EncodedInts(int_size)
          /\ log = <<[kind |-> "int", int_size |-> int_size]>>
    /\ pos = 0 /\ output = <<>>
    /\ is_data = FALSE /\ comment_buf = NoneValue /\ status = "start"
    /\ header = NoneValue /\ entries = <<>>

\* dio.read_int(reader) or dio.read_int_bypass(reader, writer)
IntRead ==
    /\ status = "start"
    /\ \E bypass \in BOOLEAN :
        \E r \in {ReadInt(input, <<>>, log[1].int_size, bypass)} :
            /\ pos' = Len(input) - Len(r.rd)
            /\ status' = IF r.ok THEN "read" ELSE IF r.panic THEN "panicked" ELSE "failed"
            /\ log' = Append(log, [kind |-> "read_int", bypass |-> bypass, ok |-> r.ok,
                                   val |-> r.val, wr |-> r.wr])
    /\ UNCHANGED <<procVars, input, output, is_data, comment_buf, header, entries>>

\* dio.write_int(writer, value) on the value read
IntWrite ==
    /\ status = "read"
    /\ output' = write_int(log[2].val, log[1].int_size)
    /\ status' = "written"
    /\ UNCHANGED <<procVars, input, pos, is_data, comment_buf, header, entries, log>>

IntsNext == IntRead \/ IntWrite

SpecInts == IntsInit /\ [][IntsNext]_vars

\* C22: for every int_size from 1 to 8 and every integer written as a sign
\* byte 0 or 1 and int_size magnitude bytes, read_int returns a value and
\* write_int of that value gives the bytes that were read
C22_IntRoundTrip ==
    (status # "start" /\ log[1].kind = "int" /\ ByteValue(input[1]) \in {0, 1}) =>
        /\ status \in {"read", "written"}
        /\ status = "written" => output = input

\* C23: read_int and read_int_bypass, and write_int behind them, never fault,
\* whatever the sign byte, the magnitude bytes and the int_size from 1 to 8
C23_NoFault == log[1].kind = "int" => status # "panicked"

\* the blocks the driver went through without an error, on any path
BlocksDone == {i \in 1..Len(log) : log[i].kind = "block" /\ log[i].ok}

\* C27: when a block has been processed, on the pass-through path or on the
\* mutating path of any compression, the bytes taken from the input for it
\* are its chunks and its zero-length terminator and nothing else: the input
\* stands right behind the terminator, where the next block type is
C27_AfterTerminator ==
    \A i \in BlocksDone : Framed(log[i].read, log[i].int_size, <<>>).ok

\* the lines process_line was called with for a block, in the order of the calls
LinesPassed(i) == [k \in 1..Len(log[i].rows) |-> log[i].rows[k].line]

\* the mutated blocks that came as a sound chunk stream, of deleted tables too
PayloadBlocks == {i \in MutatedBlocks : PayloadRead(i).ok}

\* C28: the rows passed to process_line for a block are the rows of the
\* payload, however the payload is cut into chunks and however the decoder
\* fills the read buffer: a row cut by a chunk border is passed once and
\* whole, and a last newline makes no empty row behind it
C28_RowsOfPayloadOnly ==
    \A i \in PayloadBlocks : LinesPassed(i) = RowsOfPayload(PayloadRead(i).val)

\* a block that is not compressed whose row `1 TAB x` lies in three chunks,
\* its payload ending with the newline of that row
C28_Witness ==
    \E i \in PayloadBlocks :
        /\ log[i].compression = "None" /\ log[i].int_size = 1
        /\ log[i].read = <<Byte(0), Byte(1), "1", Byte(0), Byte(1), TAB,
                          Byte(0), Byte(2), "x", LF, Byte(0), Byte(0)>>
        /\ LinesPassed(i) = << <<"1", TAB, "x">> >>

\* the driver is at a block type
AtBlockType == status = "blocks" /\ pos < Len(input)

\* C29: the driver writes what it makes of the blocks one after the other as
\* they stand in the input; the block type and the dump_id of a block leave as
\* the bytes they came as; a block whose type is neither 0x01 nor 0x04 leaves
\* as the bytes it came as; at the type 0x04 the driver writes that byte and
\* stops, and no step reads or writes anything after that
C29_DriverCopies ==
    [][/\ status # "done"
       /\ AtBlockType =>
            IF input[pos + 1] = Byte(4)
            THEN output' = output \o <<Byte(4)>> /\ pos' = pos + 1 /\ status' = "done"
            ELSE status' # "failed" =>
                 /\ SubSeq(output', 1, Len(output) + 1 + header.v.int_size + 1)
                       = output \o SubSeq(input, pos + 1, pos + 1 + header.v.int_size + 1)
                 /\ input[pos + 1] # Byte(1) =>
                       output' = output \o SubSeq(input, pos + 1, pos')]_vars

\* the payload the mutating path hands to the framing for a block: the
\* mutated rows, compressed where the block is
EmittedPayload(i) ==
    CASE log[i].compression = "Zlib" -> Compress("zlib:6", MutatedRows(log[i].rows))
      [] log[i].compression = "Zstd" -> Compress("zstd:1", MutatedRows(log[i].rows))
      [] OTHER -> MutatedRows(log[i].rows)

\* the number a length prefix tells: the sign byte and the magnitude, little
\* endian; -1 stands for any negative number and 2^31 - 1 for any number of
\* more than three bytes
PrefixValue(prefix) ==
    LET magnitude == Tail(prefix)
        byte(k) == IF k <= Len(magnitude) THEN ByteValue(magnitude[k]) ELSE 0
    IN
    IF prefix[1] # Byte(0) THEN -1
    ELSE IF \E k \in 4..Len(magnitude) : byte(k) # 0 THEN 2147483647
    ELSE byte(1) + 256 * byte(2) + 65536 * byte(3)

\* the length prefixes that stand in `wrote` before the chunks
RECURSIVE LengthsWritten(_, _, _)
LengthsWritten(wrote, chunks, int_size) ==
    IF chunks = <<>> THEN <<>>
    ELSE <<PrefixValue(SubSeq(wrote, 1, 1 + int_size))>>
            \o LengthsWritten(SubSeq(wrote, 1 + int_size + Len(chunks[1]) + 1, Len(wrote)),
                              Tail(chunks), int_size)

\* the chunk stream before a block begins with a negative length that has
\* its bytes behind it
NegativeFirst(i) ==
    \E len \in {read_int(log[i].stream, log[i].int_size)} :
        /\ len.ok /\ len.val < 0 /\ ~ChunkTooLarge(UnsignedAbs(len.val))
        /\ Len(len.rd) >= UnsignedAbs(len.val)

MutatePath == {i \in 1..Len(log) : log[i].kind = "block" /\ log[i].path = "mutate"}

\* C30: on the mutating path a chunk with a negative length prefix is taken
\* by reading as many bytes as the absolute value of the length, and every
\* chunk length written, for a block that is compressed and for one that is
\* not, is a number from 1 to 1048576
C30_ChunkLengths ==
    \A i \in MutatePath :
        /\ NegativeFirst(i) =>
              \E len \in {read_int(log[i].stream, log[i].int_size)} :
                  /\ Len(log[i].read) >= 1 + log[i].int_size + UnsignedAbs(len.val)
                  /\ log[i].compression = "None" =>
                        StartsWith(LinesPassed(i),
                                   RowsOfPayload(SubSeq(len.rd, 1,
                                       LastNewline(SubSeq(len.rd, 1, UnsignedAbs(len.val))))))
        /\ log[i].ok =>
              \E lens \in {LengthsWritten(log[i].wrote,
                                          Chunks(EmittedPayload(i), OUTPUT_CHUNK_SIZE),
                                          log[i].int_size)} :
                  \A k \in 1..Len(lens) : lens[k] >= 1 /\ lens[k] <= 1048576

\* the END tag is the last byte the driver read
EndTagRead == pos > 0 /\ input[pos] = Byte(4)

\* C35: a custom-format input that ends behind the TOC before its END tag
\* (in a chunk body, a chunk length, a dump_id, or between two blocks) makes
\* the run fail: CustomHandler::process returns Ok only with the END tag read
C35_TruncationFails ==
    (log[1].kind = "sniffed" /\ status = "done") => EndTagRead

\* the blocks of the log
BlocksLogged == {i \in 1..Len(log) : log[i].kind = "block"}

\* C36: the directives of all COMMENT entries of the TOC are registered before
\* the first block is taken: the block of t1, whose column comment stands
\* behind its data entry, goes the mutating path, and the block of logs, whose
\* table comment is the last entry, is deleted, wherever the block stands
C36_CommentsBeforeBlocks ==
    log[1].kind = "sniffed" =>
        /\ status \in {"blocks", "table", "reset"} =>
              /\ "t1" \in DOMAIN mutation_map /\ "b" \in DOMAIN mutation_map["t1"]
              /\ "logs" \in DOMAIN table_mutations
        /\ \A i \in BlocksLogged :
              /\ log[i].table = "t1" => log[i].path = "mutate" /\ ~log[i].deleted
              /\ log[i].table = "logs" => log[i].path = "mutate" /\ log[i].deleted
              /\ log[i].table = "t2" => log[i].path = "pass"

\* the block of logs is deleted, and behind it the rows of the block of t1
\* are rewritten
C36_Witness ==
    \E i, j \in BlocksLogged :
        /\ i < j
        /\ log[i].table = "logs" /\ log[i].deleted /\ log[i].ok
        /\ log[j].table = "t1" /\ log[j].path = "mutate" /\ log[j].ok
        /\ log[j].wrote # log[j].read

\* the plain driver has read a line
PlainLineRead == pos' = pos + 1 /\ status' # "failed"

\* C37: in the plain driver a line read in the IN_COPY state leaves the
\* directive maps and the accumulator as they are and, unless it is `\.`, the
\* fields of the table too, also when its text is a COMMENT ON or a COPY
\* statement; a line read in the OUT state is not given to process_line
C37_StatesApart ==
    [][PlainLineRead =>
          /\ is_data =>
                /\ mutation_map' = mutation_map /\ table_mutations' = table_mutations
                /\ comment_buf' = comment_buf
                /\ is_data' =>
                      /\ current_table' = current_table
                      /\ current_columns' = current_columns
                      /\ column_indices' = column_indices
                      /\ current_mutations' = current_mutations
                      /\ is_delete_table' = is_delete_table
                      /\ sorted_columns' = sorted_columns
          /\ ~is_data =>
                /\ log'[Len(log')].kind # "row"
                /\ relation_tracker' = relation_tracker
                /\ unique_tracker' \in {unique_tracker, {}}]_vars

\* the rows of t1 are a table directive for logs and the COPY statement of
\* logs: nothing is registered and the table is still t1
C37_Witness ==
    /\ Len(log) = 3 /\ pos = 3
    /\ log[1] = Line("plain", <<"COPY t1 (a, b) FROM stdin;">>)
    /\ log[2].kind = "row" /\ log[2].src = <<CommentTable>>
    /\ log[3].kind = "row" /\ log[3].src = <<"COPY logs (a) FROM stdin;">>
    /\ table_mutations = EmptyMap /\ mutation_map = EmptyMap
    /\ current_table = "t1" /\ is_data

\* the blocks of delete-marked tables that were processed, of the methods
\* the mutating path decodes
DeletedBlocks ==
    {i \in BlocksDone : log[i].deleted /\ log[i].compression \in {"None", "Zlib", "Zstd"}}

\* the payload the bytes of the chunks carry under a compression method is empty
CarriesNothing(bodies, compression) ==
    IF compression = "None" THEN bodies = <<>>
    ELSE \E d \in {Decompress(bodies, compression)} :
            d.ok /\ d.end /\ d.val = <<>> /\ d.used = Len(bodies)

\* C38: the block of a delete-marked table is emitted as the tag and the
\* dump_id of the input, a chunk stream that carries an empty payload and one
\* terminator, without compression, with zlib and with zstd
C38_DeletedBlockFramed ==
    /\ \A i \in DeletedBlocks :
          \E f \in {Framed(log[i].wrote, log[i].int_size, <<>>)} :
              f.ok /\ CarriesNothing(f.bodies, log[i].compression)
    /\ (status = "reset" /\ Len(log) \in DeletedBlocks) =>
          \E e \in {log[Len(log)]} :
              /\ pos - Len(e.read) - (e.int_size + 1) > 0
              /\ input[pos - Len(e.read) - (e.int_size + 1)] = Byte(1)
              /\ EndsWith(output,
                     SubSeq(input, pos - Len(e.read) - (e.int_size + 1), pos - Len(e.read))
                        \o e.wrote)

\* a zlib block of the deleted table logs with its three lines: each was
\* given to process_line and none is kept
C38_Witness ==
    /\ status = "reset" /\ Len(log) \in DeletedBlocks
    /\ log[Len(log)].compression = "Zlib" /\ log[Len(log)].table = "logs"
    /\ Len(log[Len(log)].rows) = 3
    /\ \A k \in 1..3 : ~log[Len(log)].rows[k].out.some
    /\ log[Len(log)].wrote # log[Len(log)].read

(***************************************************************************)
(* SpecMask: one call of phone_number or string_by_mask through            *)
(* dispatch_mutation, on kwargs drawn at the start.                        *)
(***************************************************************************)

\* the greatest length of a mask
MaxMask == 2

\* the numbers the random generator yields in a call
MaskDraws == 0..1

MaskChars == {"X", "#", "@", "-", "7", "é"}

Masks == UNION { [1..n -> MaskChars] : n \in 0..MaxMask }

\* no kwargs, a mask, a mask with a char placeholder of its own, a mask that
\* is no string
MaskKwargs ==
    {EmptyMap, "mask" :> JNull}
        \cup {"mask" :> JStr(m) : m \in Masks}
        \cup {("mask" :> JStr(m)) @@ ("char" :> JStr(<<"X">>)) : m \in Masks}

MaskInit ==
    /\ ProcInit
    /\ overflow_checks = FALSE
    /\ delete_patterns = <<>>
    /\ mutation_map = EmptyMap
    /\ secrets = {}
    /\ input = <<>> /\ pos = 0 /\ output = <<>>
    /\ is_data = FALSE /\ comment_buf = NoneValue /\ status = "start"
    /\ header = NoneValue /\ entries = <<>>
    /\ \E name \in {"phone_number", "string_by_mask"}, kwargs \in MaskKwargs :
          log = <<[kind |-> "mask", name |-> name, kwargs |-> kwargs]>>

\* dispatch_mutation(&spec.mutation_name, &mut ctx)
MaskCall ==
    /\ status = "start"
    /\ \E draw \in MaskDraws :
        \E r \in {dispatch_mutation(log[1].name, log[1].kwargs, <<>>, draw, unique_tracker,
                                    EmptyMap)} :
            /\ unique_tracker' = r.ut
            /\ log' = Append(log, [kind |-> "result", ok |-> r.ok, val |-> r.val])
    /\ status' = "called"
    /\ UNCHANGED <<mutation_map, table_mutations, delete_patterns, secrets, overflow_checks,
                   current_table, current_columns, column_indices, current_mutations,
                   is_delete_table, sorted_columns, relation_tracker>>
    /\ UNCHANGED <<input, pos, output, is_data, comment_buf, header, entries>>

MaskNext == MaskCall

SpecMask == MaskInit /\ [][MaskNext]_vars

UppercaseLetters == Range(Letters)

\* C26: phone_number and string_by_mask alike, given a mask, return a value of
\* the length of the mask with a digit where the mask has X or #, an uppercase
\* letter where it has @, and the char of the mask everywhere else; without a
\* mask they return an error
C26_MaskShape ==
    (status = "called" /\ log[1].kind = "mask") =>
        \E mask \in {get_str_kwarg(log[1].kwargs, "mask")} :
            IF ~mask.some THEN ~log[2].ok
            ELSE /\ log[2].ok
                 /\ Len(log[2].val) = Len(mask.v)
                 /\ \A i \in 1..Len(mask.v) :
                       IF mask.v[i] \in {"X", "#"} THEN log[2].val[i] \in DigitAtoms
                       ELSE IF mask.v[i] = "@" THEN log[2].val[i] \in UppercaseLetters
                       ELSE log[2].val[i] = mask.v[i]

\* C32: every line the plain driver takes into the accumulator of a directive
\* of several lines is written, as it is and in its place: when a line ending
\* in `';` closes the accumulator, the lines joined are written behind what
\* was written before (and were given to parse_comment), and when the input
\* ends with the accumulator open, the lines it holds have been written
C32_AccumulatorWritten ==
    /\ []((status = "done" /\ comment_buf.some) =>
            EndsWith(output, comment_buf.v \o <<LF>>))
    /\ [][(comment_buf.some /\ ~comment_buf'.some) =>
            /\ output' = output \o comment_buf.v \o <<LF>> \o log'[Len(log')].line \o <<LF>>
            /\ mutation_map' = parse_comment(comment_buf.v \o <<LF>>
                                                \o log'[Len(log')].line).mm]_vars

(***************************************************************************)
(* SpecUnique: one call of UniqueTracker::generate_unique on a tracker     *)
(* that holds some values, with a generator that is called again and       *)
(* again.  A generator is [before, switch_at, after]: its k-th call yields *)
(* `before` before the call switch_at and `after` from that call on.  The  *)
(* call runs to its end once begun (a sequential program), hence the       *)
(* fairness of SpecUnique.                                                 *)
(***************************************************************************)

MAX_RETRIES == 1000

UniqueValues == {<<"a">>, <<"b">>, <<"c">>}

\* `gen()`, called for the k-th time
GenCall(gen, k) ==
    IF k >= gen.switch_at THEN gen.after ELSE gen.before

\* the generators: the ones that switch at the first call, the second, the
\* last one allowed and the one after it
Generators ==
    { [before |-> v, switch_at |-> n, after |-> w] :
        v \in UniqueValues, n \in {1, 2, MAX_RETRIES, MAX_RETRIES + 1}, w \in UniqueValues }

\* a generate_unique that gives up when the first value is present
GenerateUniqueOnce(values, gen, first, last) ==
    [ok |-> try_insert(values, GenCall(gen, first)).inserted,
     val |-> IF try_insert(values, GenCall(gen, first)).inserted
             THEN GenCall(gen, first) ELSE <<>>,
     ut |-> try_insert(values, GenCall(gen, first)).values,
     calls |-> first]

\* the rounds first..last of the loop `for _ in 0..MAX_RETRIES` of
\* UniqueTracker::generate_unique: [ok, val, ut, calls], calls being the calls
\* of the generator made so far.  The rounds are taken in their order, the
\* first half of them before the second, each round `gen()` and try_insert;
\* the second half is taken when the first has returned nothing.
RECURSIVE GenerateUniqueLoop(_, _, _, _)
GenerateUniqueLoop(values, gen, first, last) ==
    IF first > last
    THEN [ok |-> FALSE, val |-> <<>>, ut |-> values, calls |-> last]
    ELSE IF first = last
    THEN [ok |-> try_insert(values, GenCall(gen, first)).inserted,
          val |-> IF try_insert(values, GenCall(gen, first)).inserted
                  THEN GenCall(gen, first) ELSE <<>>,
          ut |-> try_insert(values, GenCall(gen, first)).values,
          calls |-> first]
    ELSE CHOOSE r \in
            { IF head.ok THEN head
              ELSE GenerateUniqueLoop(head.ut, gen, (first + last) \div 2 + 1, last) :
              head \in {GenerateUniqueLoop(values, gen, first, (first + last) \div 2)} } :
            TRUE

UniqueInit ==
    /\ ProcInit
    /\ overflow_checks = FALSE
    /\ delete_patterns = <<>>
    /\ mutation_map = EmptyMap
    /\ secrets = {}
    /\ input = <<>> /\ pos = 0 /\ output = <<>>
    /\ is_data = FALSE /\ comment_buf = NoneValue /\ status = "start"
    /\ header = NoneValue /\ entries = <<>>
    /\ \E held \in SUBSET UniqueValues, gen \in Generators :
          log = <<[kind |-> "unique", held |-> held, gen |-> gen]>>

\* `self.values` before the call
UniqueHold ==
    /\ status = "start"
    /\ unique_tracker' = log[1].held
    /\ status' = "held"
    /\ UNCHANGED <<mutation_map, table_mutations, delete_patterns, secrets, overflow_checks,
                   current_table, current_columns, column_indices, current_mutations,
                   is_delete_table, sorted_columns, relation_tracker>>
    /\ UNCHANGED <<input, pos, output, is_data, comment_buf, header, entries, log>>

\* tracker.generate_unique(gen)
UniqueCall ==
    /\ status = "held"
    /\ \E r \in {GenerateUniqueLoop(unique_tracker, log[1].gen, 1, MAX_RETRIES)} :
          /\ unique_tracker' = r.ut
          /\ log' = Append(log, [kind |-> "generated", ok |-> r.ok, val |-> r.val,
                                 calls |-> r.calls])
    /\ status' = "called"
    /\ UNCHANGED <<mutation_map, table_mutations, delete_patterns, secrets, overflow_checks,
                   current_table, current_columns, column_indices, current_mutations,
                   is_delete_table, sorted_columns, relation_tracker>>
    /\ UNCHANGED <<input, pos, output, is_data, comment_buf, header, entries>>

UniqueNext == UniqueHold \/ UniqueCall

SpecUnique == UniqueInit /\ [][UniqueNext]_vars /\ WF_vars(UniqueNext)

\* what the call returned fits the tracker it was given
UniqueResultFits ==
    (status = "called" /\ log[1].kind = "unique") =>
        \E held \in {log[1].held}, gen \in {log[1].gen}, r \in {log[2]} :
            /\ r.calls <= MAX_RETRIES
            /\ \A k \in 1..(r.calls - 1) : GenCall(gen, k) \in held
            /\ IF r.ok
               THEN /\ r.val = GenCall(gen, r.calls)
                    /\ r.val \notin held
                    /\ unique_tracker = held \cup {r.val}
               ELSE /\ r.calls = MAX_RETRIES
                    /\ GenCall(gen, MAX_RETRIES) \in held
                    /\ unique_tracker = held

\* C31: generate_unique calls the generator 1000 times at most; it returns
\* the first value generated that the tracker does not hold and has inserted
\* that value and no other, or, after 1000 values that the tracker holds, it
\* returns the error and the set is as it was; the call ends for every
\* generator
C31_GenerateUnique ==
    /\ []UniqueResultFits
    /\ (log[1].kind = "unique") ~> (status = "called")

\* a generator whose 1000th value is the first new one, and one whose 1001st
\* would be
C31_Witness ==
    /\ status = "called" /\ log[1].kind = "unique"
    /\ \/ log[2].ok /\ log[2].calls = MAX_RETRIES
       \/ ~log[2].ok /\ log[1].gen.switch_at = MAX_RETRIES + 1
                     /\ log[1].gen.after \notin log[1].held

(***************************************************************************)
(* SpecTables: the tables of a run one after the other, as both drivers    *)
(* take them.  The plain driver calls setup_table at a COPY line, gives    *)
(* every row to process_line and calls reset_table at `\.`; the custom     *)
(* driver calls setup_table when the copy_stmt of the data entry is not    *)
(* empty (it may match no COPY statement), gives the rows to process_line  *)
(* when has_mutations() or is_delete() and copies them otherwise, and      *)
(* calls reset_table behind the block.  Table t1 may have a directive on   *)
(* its column b, table logs may be delete-marked, table t2 has neither.    *)
(***************************************************************************)

\* the tables of one run
MaxTables == 3

TablesInit ==
    /\ current_table = ""
    /\ current_columns = <<>>
    /\ column_indices = EmptyMap
    /\ current_mutations = EmptyMap
    /\ is_delete_table = FALSE
    /\ sorted_columns = <<>>
    /\ unique_tracker = {}
    /\ relation_tracker = EmptyRelations
    /\ overflow_checks = FALSE
    /\ delete_patterns \in {<<>>, <<<<"logs">>>>}
    /\ table_mutations \in {EmptyMap, "logs" :> MSpec("delete", EmptyMap, <<>>, <<>>)}
    /\ mutation_map \in
          {EmptyMap,
           "t1" :> ("b" :> <<MSpec("fixed_value", "value" :> JStr(<<"R">>), <<>>, <<>>)>>)}
    /\ secrets = {}
    /\ RunIdle
    /\ log = <<[kind |-> "tables"]>>

TablesBegun == Len(SelectSeq(log, LAMBDA e : e.kind = "setup"))

\* a COPY line of the plain driver, or a data entry of the custom driver
\* whose copy_stmt is a COPY statement: setup_table
TablesCopy ==
    /\ log[1].kind = "tables" /\ ~is_data /\ TablesBegun < MaxTables
    /\ \E c \in CopyStatements :
        /\ SetupTableFields(c)
        /\ log' = Append(log, [kind |-> "setup", table |-> c.table])
    /\ is_data' = TRUE
    /\ UNCHANGED <<input, pos, output, comment_buf, status, header, entries>>

\* a data entry of the custom driver whose copy_stmt is empty or is no COPY
\* statement: setup_table is not called, or returns false
TablesNoCopy ==
    /\ log[1].kind = "tables" /\ ~is_data /\ TablesBegun < MaxTables
    /\ log' = Append(log, [kind |-> "setup", table |-> ""])
    /\ is_data' = TRUE
    /\ UNCHANGED <<procVars, input, pos, output, comment_buf, status, header, entries>>

\* a row of the table: process_line (the custom driver copies the rows when
\* neither has_mutations() nor is_delete(), and process_line returns the row
\* as it is then)
TablesRow ==
    /\ log[1].kind = "tables" /\ is_data
    /\ Len(RowsOf(log)) < MaxRows
    /\ \E line \in RowLines :
        \E res \in {process_line(line, [i \in 1..MaxDraws |-> 1])} :
        /\ unique_tracker' = res.ut
        /\ relation_tracker' = res.rt
        /\ output' = IF res.out.some THEN output \o res.out.v \o <<LF>> ELSE output
        /\ log' = Append(log, [kind |-> "row", line |-> line, out |-> res.out])
    /\ UNCHANGED <<mutation_map, table_mutations, delete_patterns, secrets, overflow_checks,
                   current_table, current_columns, column_indices, current_mutations,
                   is_delete_table, sorted_columns>>
    /\ UNCHANGED <<input, pos, is_data, comment_buf, status, header, entries>>

\* the `\.` line, or the end of the block: reset_table
TablesEnd ==
    /\ log[1].kind = "tables" /\ is_data
    /\ ResetTableFields
    /\ is_data' = FALSE
    /\ log' = Append(log, [kind |-> "reset"])
    /\ UNCHANGED <<input, pos, output, comment_buf, status, header, entries>>

TablesNext == TablesCopy \/ TablesNoCopy \/ TablesRow \/ TablesEnd

SpecTables == TablesInit /\ [][TablesNext]_vars

\* the table a row of the log belongs to: the one of the last setup before it
TableOfRow(i) ==
    log[CHOOSE k \in 1..i : log[k].kind = "setup"
                            /\ \A j \in (k + 1)..i : log[j].kind # "setup"].table

\* the table has no directive and no delete mark (no table at all has none)
Undirected(table) ==
    /\ table \notin DOMAIN mutation_map
    /\ table = "" \/ ~should_delete_table(table)

\* C33: between two tables has_mutations() and is_delete() are false, and the
\* rows of a table that has no directive and no delete mark leave as they
\* came, whatever tables came before it; so do the rows of a data entry of
\* the custom format whose copy_stmt is empty or matches no COPY statement
C33_NoLeak ==
    log[1].kind = "tables" =>
        /\ ~is_data => (~has_mutations /\ ~is_delete)
        /\ \A i \in 1..Len(log) :
              (log[i].kind = "row" /\ Undirected(TableOfRow(i))) =>
                  log[i].out = Some(log[i].line)

\* a row of a data entry without a COPY statement, behind a table with a
\* directive whose row was rewritten and a delete-marked table whose row was
\* dropped
C33_Witness ==
    /\ log[1].kind = "tables" /\ Len(log) = 10
    /\ log[2].kind = "setup" /\ log[2].table = "t1"
    /\ log[3].kind = "row" /\ log[3].out.some /\ log[3].out.v # log[3].line
    /\ log[5].kind = "setup" /\ log[5].table = "logs"
    /\ log[6].kind = "row" /\ ~log[6].out.some
    /\ log[8].kind = "setup" /\ log[8].table = ""
    /\ log[9].kind = "row" /\ log[9].out = Some(log[9].line)
    /\ log[10].kind = "reset"

(***************************************************************************)
(* SpecLines: the mutating path of the custom driver on the blocks of      *)
(* tables with a column directive, without compression.  pg_dump ends the  *)
(* COPY data of a block with the line `\.` and empty lines; the lines of   *)
(* the payloads are rows of one or two columns, `\.` and the empty line.   *)
(***************************************************************************)

\* the lines of a payload, at most
MaxBlockLines == 2

LineTexts == {<<"1">>, <<"1", TAB, "x">>, <<EndOfData>>, <<>>}

RECURSIVE LinePayloads(_)
LinePayloads(n) ==
    IF n = 0 THEN {<<>>}
    ELSE LinePayloads(n - 1)
            \cup {p \o l \o <<LF>> : p \in LinePayloads(n - 1), l \in LineTexts}

FixedR == <<MSpec("fixed_value", "value" :> JStr(<<"R">>), <<>>, <<>>)>>

LinesInit ==
    /\ ProcInit
    /\ overflow_checks = FALSE
    /\ delete_patterns = <<>>
    /\ mutation_map \in {"logs" :> ("a" :> FixedR), "t1" :> ("b" :> FixedR),
                          ("logs" :> ("a" :> FixedR)) @@ ("t1" :> ("b" :> FixedR))}
    /\ secrets = {}
    /\ RunIdle
    /\ log = <<[kind |-> "lines"]>>

\* a data block of an entry of the TOC: setup_table on its copy_stmt
LinesSetup ==
    /\ log[1].kind = "lines" /\ status = "run"
    /\ Len(SelectSeq(log, LAMBDA e : e.kind = "setup")) < MaxPayloads
    /\ \E c \in CopyStatements :
        /\ SetupTableFields(c)
        /\ log' = Append(log, [kind |-> "setup", table |-> c.table])
    /\ status' = "table"
    /\ UNCHANGED <<input, pos, output, is_data, comment_buf, header, entries>>

\* has_mutations(): process_block on the one chunk of the block and its
\* terminator, the integers of one byte
LinesBlock ==
    /\ log[1].kind = "lines" /\ status = "table" /\ (has_mutations \/ is_delete)
    /\ \E payload \in LinePayloads(MaxBlockLines) \ {<<>>} :
        \E r \in {process_block_uncompressed(
                        IntBytes(Len(payload), 1) \o payload \o IntBytes(0, 1), 1,
                        [i \in 1..MaxDraws |-> 1], unique_tracker, relation_tracker)} :
        /\ output' = output \o r.wr
        /\ unique_tracker' = r.ut
        /\ relation_tracker' = r.rt
        /\ log' = Append(log, [kind |-> "block", ok |-> r.ok, table |-> current_table,
                               columns |-> current_columns, payload |-> payload,
                               wrote |-> r.wr, rows |-> r.rows])
    /\ status' = "reset"
    /\ UNCHANGED <<mutation_map, table_mutations, delete_patterns, secrets, overflow_checks,
                   current_table, current_columns, column_indices, current_mutations,
                   is_delete_table, sorted_columns>>
    /\ UNCHANGED <<input, pos, is_data, comment_buf, header, entries>>

\* neither has_mutations() nor is_delete(): pass_through_block
LinesPass ==
    /\ log[1].kind = "lines" /\ status = "table" /\ ~(has_mutations \/ is_delete)
    /\ \E payload \in LinePayloads(MaxBlockLines) \ {<<>>} :
        \E r \in {pass_through_block(IntBytes(Len(payload), 1) \o payload \o IntBytes(0, 1),
                                      <<>>, 1)} :
        /\ output' = output \o r.wr
        /\ log' = Append(log, [kind |-> "block", ok |-> r.ok, table |-> current_table,
                               columns |-> current_columns, payload |-> payload,
                               wrote |-> r.wr, rows |-> <<>>])
    /\ status' = "reset"
    /\ UNCHANGED <<procVars, input, pos, is_data, comment_buf, header, entries>>

\* `self.processor.reset_table()`
LinesReset ==
    /\ log[1].kind = "lines" /\ status = "reset"
    /\ ResetTableFields
    /\ status' = "run"
    /\ UNCHANGED <<input, pos, output, is_data, comment_buf, header, entries, log>>

LinesNext == LinesSetup \/ LinesBlock \/ LinesPass \/ LinesReset

SpecLines == LinesInit /\ [][LinesNext]_vars

\* C39: in a mutated block of the custom format the line `\.` and the empty
\* line are emitted as they are, also when the table has one column and that
\* column has a directive
C39_MarkerKept ==
    \A i \in 1..Len(log) :
        log[i].kind = "block" =>
            \A k \in 1..Len(log[i].rows) :
                log[i].rows[k].line \in {<<EndOfData>>, <<>>} =>
                    log[i].rows[k].out = Some(log[i].rows[k].line)

====
